---- MODULE Spec2Model ----
(***************************************************************************)
(* Model of the equilibrium automation framework: the Scheduler with its   *)
(* pending (future_events) and fired (events) lists, the Event due check,  *)
(* the Input/Output device wrappers, the Threshold, TimedOutput and        *)
(* BidirectionalThreshold controllers built on them, and ControllerGroup.  *)
(*                                                                         *)
(* Instants are whole ticks (integers).  f32 values are modelled by their  *)
(* exact value in half units (1.0 is 2) together with a NaN flag; only     *)
(* readings that are exactly representable are used.                       *)
(*                                                                         *)
(* Exactly one object is under test in a behaviour: a bare Scheduler, a    *)
(* bare Output, one controller, or a ControllerGroup owning its            *)
(* controllers.  The variables of the objects that were not constructed    *)
(* hold Absent.                                                            *)
(***************************************************************************)
EXTENDS Integers, Sequences, FiniteSets, TLC

VARIABLES
    scheduler,   \* the bare Scheduler under test, or Absent
    threshold,   \* the Threshold controller under test, or Absent
    timed,       \* the TimedOutput controller under test, or Absent
    bidirectional, \* the BidirectionalThreshold under test, or Absent
    group,       \* the ControllerGroup under test, or Absent
    output,      \* the bare Output under test, or Absent
    runtime,     \* the Runtime under test, or Absent
    op,          \* the last call made on the object under test
    ret          \* what that call returned: [panic, val] with val an Option

vars == <<scheduler, threshold, timed, bidirectional, group, output, runtime,
          op, ret>>

----------------------------------------------------------------------------
(* Bounds of the model *)

\* schedule and query instants of the bare Scheduler: 0..MaxSchedTime
MaxSchedTime == 1
\* construction and poll instants of Threshold: 0..MaxTime
MaxTime == 2
\* number of Events the bare Scheduler creates in a behaviour
MaxEvents == 3
\* number of Events the Scheduler of a controller creates in a behaviour
MaxControllerEvents == 4
\* Threshold read intervals: 0..MaxInterval
MaxInterval == 2
\* ticks per calendar day in the TimedOutput model
DayLen == 3
\* TimedOutput poll instants: 0..MaxTimedTime
MaxTimedTime == 7
\* TimedOutput durations: 0..MaxDuration
MaxDuration == 4
\* number of controllers added to a ControllerGroup
MaxGroupSize == 3
\* ControllerGroup poll instants: 0..MaxGroupTime
MaxGroupTime == 2
\* number of polls of a ControllerGroup in a behaviour
MaxGroupPolls == 2
\* number of commands given to the bare Output in a behaviour
MaxCommands == 6
\* last instant of a ControllerGroup polled at instants that keep growing,
\* and the number of controllers of that group
MaxLiveTime == 4
MaxLiveSize == 2
\* last instant of the clock of a Runtime, and the number of controllers of
\* its group
MaxRunTime == 4
MaxRunSize == 2

SchedTimes == 0..MaxSchedTime
\* the intervals of a Runtime, in ticks of its clock
RunIntervals == {1, 2}
GroupTimes == 0..MaxGroupTime
Times == 0..MaxTime
Intervals == 0..MaxInterval
TimedTimes == 0..MaxTimedTime
Durations == 0..MaxDuration
StartTimes == 0..(DayLen - 1)

----------------------------------------------------------------------------
(* Option<T> *)

None == [some |-> FALSE]
Some(x) == [some |-> TRUE, val |-> x]

Absent == [absent |-> TRUE]

\* a call that returned v / a call that panicked
Returned(v) == [panic |-> FALSE, val |-> v]
Panicked == [panic |-> TRUE, val |-> None]

----------------------------------------------------------------------------
(* types/action.rs, types/event.rs, types/message.rs *)

Action == {"Read", "On", "Off"}

\* Event::new.  id is the identity of the created Event object (the n-th
\* Event its Scheduler created); the code's Event has no such field, it is
\* carried so that "the same Event" can be told from "an equal Event".
Event_new(action, timestamp, id) ==
    [action |-> action, value |-> None, timestamp |-> timestamp, id |-> id]

should_execute_strict(e, time) ==
    IF e.timestamp >= time THEN FALSE ELSE TRUE

should_execute_always(e, time) == TRUE

\* Event::should_execute
should_execute(e, time) ==
    IF e.timestamp > time THEN FALSE ELSE TRUE

\* Message::new
Message_new(name, content, timestamp, read_state) ==
    [name |-> name, content |-> content, timestamp |-> timestamp,
     read_state |-> read_state]

----------------------------------------------------------------------------
(* scheduler.rs *)

\* Scheduler::new.  created counts the Events this Scheduler has created
\* (the source of Event ids).
Scheduler_new == [future_events |-> <<>>, events |-> <<>>, created |-> 0]

Scheduler_push_dedup(s, action, timestamp) ==
    IF \E i \in 1..Len(s.future_events) :
           /\ s.future_events[i].action = action
           /\ s.future_events[i].timestamp = timestamp
    THEN s
    ELSE [s EXCEPT !.future_events =
                       Append(@, Event_new(action, timestamp, s.created + 1)),
                   !.created = @ + 1]

\* the body shared by schedule_on / schedule_off / schedule_read:
\* Event::new(action, timestamp) pushed on future_events
Scheduler_push(s, action, timestamp) ==
    [s EXCEPT !.future_events =
                  Append(@, Event_new(action, timestamp, s.created + 1)),
              !.created = @ + 1]

\* Scheduler::schedule_on
schedule_on(s, timestamp) == Scheduler_push(s, "On", timestamp)

\* Scheduler::schedule_off
schedule_off(s, timestamp) == Scheduler_push(s, "Off", timestamp)

\* Scheduler::schedule_read
schedule_read(s, timestamp) == Scheduler_push(s, "Read", timestamp)

\* Scheduler::has_future_events
has_future_events(s) == s.future_events # <<>>

Position_earliest(q, time) ==
    LET due == {i \in 1..Len(q) : should_execute(q[i], time)}
    IN  IF due = {} THEN None
        ELSE Some(CHOOSE i \in due :
                    \A j \in due :
                        \/ q[i].timestamp < q[j].timestamp
                        \/ q[i].timestamp = q[j].timestamp /\ i <= j)

Position_last(q, time) ==
    LET due == {i \in 1..Len(q) : should_execute(q[i], time)}
    IN  IF due = {} THEN None
        ELSE Some(CHOOSE i \in due : \A j \in due : i >= j)

\* future_events.iter().position(|e| e.should_execute(time)):
\* the index of the first Event, in list order, that is due
Position(q, time) ==
    LET due == {i \in 1..Len(q) : should_execute(q[i], time)}
    IN  IF due = {} THEN None
        ELSE Some(CHOOSE i \in due : \A j \in due : i <= j)

\* Vec::remove(index): the list without its index-th element, order kept
Remove(q, index) == SubSeq(q, 1, index - 1) \o SubSeq(q, index + 1, Len(q))

attempt_execution_keep(s, time) ==
    LET index == Position(s.future_events, time)
    IN  IF index.some
        THEN LET event == s.future_events[index.val]
             IN  [self |-> [s EXCEPT !.events = Append(@, event)],
                  ret  |-> Some(event)]
        ELSE [self |-> s, ret |-> None]

attempt_execution_drop(s, time) ==
    LET index == Position(s.future_events, time)
    IN  IF index.some
        THEN LET event == s.future_events[index.val]
             IN  [self |-> [s EXCEPT !.future_events = Remove(@, index.val)],
                  ret  |-> Some(event)]
        ELSE [self |-> s, ret |-> None]

\* Scheduler::attempt_execution: the Scheduler after the call and the
\* returned Option<Event>
attempt_execution(s, time) ==
    LET index == Position(s.future_events, time)
    IN  IF index.some
        THEN LET event == s.future_events[index.val]
             IN  [self |-> [s EXCEPT !.future_events = Remove(@, index.val),
                                     !.events = Append(@, event)],
                  ret  |-> Some(event)]
        ELSE [self |-> s, ret |-> None]

----------------------------------------------------------------------------
(* input.rs, output.rs *)

\* Input::new: no value cached yet.  reads counts the invocations of the
\* device callback.
Input_new == [state |-> None, reads |-> 0]

\* Input::read, with `reading` the String the device callback returns
Input_read(i, reading) ==
    [self |-> [state |-> Some(reading), reads |-> i.reads + 1],
     ret  |-> reading]

\* Input::get_state
Input_get_state(i) == i.state

\* Output::new: state unset.  calls is the sequence of booleans the device
\* callback has been invoked with.
Output_new == [state |-> None, calls |-> <<>>]

Output_activate_if_changed(o) ==
    IF o.state = Some(TRUE) THEN o
    ELSE [state |-> Some(TRUE), calls |-> Append(o.calls, TRUE)]

\* Output::activate
Output_activate(o) == [state |-> Some(TRUE), calls |-> Append(o.calls, TRUE)]

Output_deactivate_if_changed(o) ==
    IF o.state = Some(FALSE) THEN o
    ELSE [state |-> Some(FALSE), calls |-> Append(o.calls, FALSE)]

\* Output::deactivate
Output_deactivate(o) == [state |-> Some(FALSE), calls |-> Append(o.calls, FALSE)]

\* Output::get_state
Output_get_state(o) == o.state

----------------------------------------------------------------------------
(* f32 and str::parse::<f32> *)

\* the Strings the input device may return
Readings == {"0.0", "0.5", "1.0", "1.5", "2.0", "NaN", "abc", ""}

\* an f32: NaN, or a finite value given in half units
F32(v) == [nan |-> FALSE, v |-> v]
F32_NaN == [nan |-> TRUE, v |-> 0]

\* str::parse::<f32>() on the Readings: Ok(value) or Err
ParseF32(str) ==
    CASE str = "0.0" -> [ok |-> TRUE, val |-> F32(0)]
      [] str = "0.5" -> [ok |-> TRUE, val |-> F32(1)]
      [] str = "1.0" -> [ok |-> TRUE, val |-> F32(2)]
      [] str = "1.5" -> [ok |-> TRUE, val |-> F32(3)]
      [] str = "2.0" -> [ok |-> TRUE, val |-> F32(4)]
      [] str = "NaN" -> [ok |-> TRUE, val |-> F32_NaN]
      [] OTHER       -> [ok |-> FALSE, val |-> F32_NaN]

\* f32 `>`: false as soon as one side is NaN
F32_gt(a, b) == ~a.nan /\ ~b.nan /\ a.v > b.v

\* the thresholds a Threshold is configured with (half units: 1.0, 1.5)
Thresholds == {F32(2), F32(3)}
\* the names given to a controller under test
Names == {"n"}
\* what the input devices of the controllers of a group return: a reading
\* above the thresholds the group is built with, and a malformed reading
GroupReadings == {"1.5", "abc"}

----------------------------------------------------------------------------
(* controllers/threshold.rs *)

\* Threshold::new_without_scheduled
Threshold_new_without_scheduled(thr, interval) ==
    [name |-> None, threshold |-> thr, input |-> Input_new,
     output |-> Output_new, interval |-> interval,
     schedule |-> Scheduler_new, inverted |-> FALSE]

\* Threshold::set_inverted
Threshold_set_inverted(c) == [c EXCEPT !.inverted = TRUE]

\* Threshold::set_threshold
Threshold_set_threshold(c, thr) == [c EXCEPT !.threshold = thr]

Threshold_schedule_next_now(c, time) ==
    [c EXCEPT !.schedule = schedule_read(@, time)]

\* Threshold::schedule_next(time)
Threshold_schedule_next(c, time) ==
    [c EXCEPT !.schedule = schedule_read(@, time + c.interval)]

above_threshold_ge(c, reading) ==
    LET rd == Input_read(c.input, reading)
        parsed == ParseF32(rd.ret)
        c1 == [c EXCEPT !.input = rd.self]
    IN  IF ~parsed.ok
        THEN [self |-> c1, panic |-> TRUE, ret |-> FALSE]
        ELSE [self |-> c1, panic |-> FALSE,
              ret |-> ~F32_gt(c.threshold, parsed.val) /\ ~parsed.val.nan]

above_threshold_default(c, reading) ==
    LET rd == Input_read(c.input, reading)
        parsed == ParseF32(rd.ret)
        c1 == [c EXCEPT !.input = rd.self]
    IN  [self |-> c1, panic |-> FALSE,
         ret |-> IF parsed.ok /\ F32_gt(parsed.val, c.threshold)
                 THEN TRUE ELSE FALSE]

\* Threshold::above_threshold: reads the input; panics (unwrap) when the
\* reading does not parse
above_threshold(c, reading) ==
    LET rd == Input_read(c.input, reading)
        parsed == ParseF32(rd.ret)
        c1 == [c EXCEPT !.input = rd.self]
    IN  IF ~parsed.ok
        THEN [self |-> c1, panic |-> TRUE, ret |-> FALSE]
        ELSE [self |-> c1, panic |-> FALSE,
              ret |-> IF F32_gt(parsed.val, c.threshold) THEN TRUE ELSE FALSE]

\* Threshold::handle_above_threshold
handle_above_threshold(c) ==
    IF c.inverted THEN [c EXCEPT !.output = Output_deactivate(@)]
                  ELSE [c EXCEPT !.output = Output_activate(@)]

\* Threshold::handle_below_threshold
handle_below_threshold(c) ==
    IF c.inverted THEN [c EXCEPT !.output = Output_activate(@)]
                  ELSE [c EXCEPT !.output = Output_deactivate(@)]

\* Option<String>::unwrap_or_default on the controller name
NameOrDefault(c) == IF c.name.some THEN c.name.val ELSE ""

Threshold_poll_from_event(c, time, reading) ==
    LET att == attempt_execution(c.schedule, time)
        c1  == [c EXCEPT !.schedule = att.self]
    IN  IF ~att.ret.some
        THEN [self |-> c, ret |-> Returned(None)]
        ELSE IF att.ret.val.action # "Read"
        THEN [self |-> c1, ret |-> Panicked]
        ELSE LET ab == above_threshold(c1, reading)
             IN  IF ab.panic
                 THEN [self |-> ab.self, ret |-> Panicked]
                 ELSE LET c2 == IF ab.ret THEN handle_above_threshold(ab.self)
                                          ELSE handle_below_threshold(ab.self)
                          msg == IF ab.ret THEN "Above Threshold"
                                           ELSE "Below Threshold"
                          c3 == [c2 EXCEPT !.schedule =
                                     schedule_read(@, att.ret.val.timestamp + c.interval)]
                      IN  [self |-> c3,
                           ret  |-> Returned(Some(Message_new(
                                       NameOrDefault(c3), msg, time,
                                       Input_get_state(c3.input))))]

Threshold_poll_msg_by_output(c, time, reading) ==
    LET att == attempt_execution(c.schedule, time)
        c1  == [c EXCEPT !.schedule = att.self]
    IN  IF ~att.ret.some
        THEN [self |-> c, ret |-> Returned(None)]
        ELSE IF att.ret.val.action # "Read"
        THEN [self |-> c1, ret |-> Panicked]
        ELSE LET ab == above_threshold(c1, reading)
             IN  IF ab.panic
                 THEN [self |-> ab.self, ret |-> Panicked]
                 ELSE LET c2 == IF ab.ret THEN handle_above_threshold(ab.self)
                                          ELSE handle_below_threshold(ab.self)
                          msg == IF c2.output.state = Some(TRUE)
                                 THEN "Above Threshold"
                                 ELSE "Below Threshold"
                          c3 == [c2 EXCEPT !.schedule =
                                     schedule_read(@, time + c.interval)]
                      IN  [self |-> c3,
                           ret  |-> Returned(Some(Message_new(
                                       NameOrDefault(c3), msg, time,
                                       Input_get_state(c3.input))))]

\* a poll that arms the next Read before it samples the Input
Threshold_poll_rearm_first(c, time, reading) ==
    LET att == attempt_execution(c.schedule, time)
        c1  == [c EXCEPT !.schedule = schedule_read(att.self, time + c.interval)]
    IN  IF ~att.ret.some
        THEN [self |-> c, ret |-> Returned(None)]
        ELSE IF att.ret.val.action # "Read"
        THEN [self |-> c1, ret |-> Panicked]
        ELSE LET ab == above_threshold(c1, reading)
             IN  IF ab.panic
                 THEN [self |-> ab.self, ret |-> Panicked]
                 ELSE LET c2 == IF ab.ret THEN handle_above_threshold(ab.self)
                                          ELSE handle_below_threshold(ab.self)
                          msg == IF ab.ret THEN "Above Threshold"
                                           ELSE "Below Threshold"
                      IN  [self |-> c2,
                           ret  |-> Returned(Some(Message_new(
                                       NameOrDefault(c2), msg, time,
                                       Input_get_state(c2.input))))]

\* Threshold::poll(time), with `reading` what the input device returns if it
\* is read: the controller after the call and the returned Option<Message>,
\* or a panic and the controller as the panic leaves it
Threshold_poll(c, time, reading) ==
    LET att == attempt_execution(c.schedule, time)
        c1  == [c EXCEPT !.schedule = att.self]
    IN  IF ~att.ret.some
        THEN [self |-> c, ret |-> Returned(None)]
        ELSE IF att.ret.val.action # "Read"
        THEN [self |-> c1, ret |-> Panicked]
        ELSE LET ab == above_threshold(c1, reading)
             IN  IF ab.panic
                 THEN [self |-> ab.self, ret |-> Panicked]
                 ELSE LET c2 == IF ab.ret THEN handle_above_threshold(ab.self)
                                          ELSE handle_below_threshold(ab.self)
                          msg == IF ab.ret THEN "Above Threshold"
                                           ELSE "Below Threshold"
                          c3 == [c2 EXCEPT !.schedule =
                                     schedule_read(@, time + c.interval)]
                      IN  [self |-> c3,
                           ret  |-> Returned(Some(Message_new(
                                       NameOrDefault(c3), msg, time,
                                       Input_get_state(c3.input))))]

----------------------------------------------------------------------------
(* controllers/bidirectional.rs *)

\* f32 `+`, `-` and `<` (exact on the values used; NaN propagates)
F32_add(a, b) == IF a.nan \/ b.nan THEN F32_NaN ELSE F32(a.v + b.v)
F32_sub(a, b) == IF a.nan \/ b.nan THEN F32_NaN ELSE F32(a.v - b.v)
F32_lt(a, b) == ~a.nan /\ ~b.nan /\ a.v < b.v

\* the threshold and the tolerances a BidirectionalThreshold is configured
\* with (half units: 1.0; 0.0 and 0.5)
BidirectionalThresholds == {F32(2)}
Tolerances == {F32(0), F32(1)}

\* BidirectionalThreshold::new
BidirectionalThreshold_new(thr, tolerance, interval) ==
    [name |-> None, threshold |-> thr, tolerance |-> tolerance,
     input |-> Input_new, increase_output |-> Output_new,
     decrease_output |-> Output_new, interval |-> interval,
     schedule |-> Scheduler_new]

\* a re-arming that schedules an On where the Read belongs
schedule_next_in_place_arms_on(c, time) ==
    [c EXCEPT !.schedule = schedule_on(@, time + c.interval)]

schedule_next_in_place_no_interval(c, time) ==
    [c EXCEPT !.schedule = schedule_read(@, time)]

\* BidirectionalThreshold::schedule_next_in_place
schedule_next_in_place(c, time) ==
    [c EXCEPT !.schedule = schedule_read(@, time + c.interval)]

\* BidirectionalThreshold::schedule_next(time)
BidirectionalThreshold_schedule_next(c, time) == schedule_next_in_place(c, time)

get_state_inclusive(c, reading) ==
    LET rd == Input_read(c.input, reading)
        parsed == ParseF32(rd.ret)
        c1 == [c EXCEPT !.input = rd.self]
        hi == F32_add(c.threshold, c.tolerance)
        lo == F32_sub(c.threshold, c.tolerance)
    IN  IF ~parsed.ok
        THEN [self |-> c1, panic |-> TRUE, ret |-> "WithinTolerance"]
        ELSE [self |-> c1, panic |-> FALSE,
              ret |-> IF F32_gt(parsed.val, hi) \/ parsed.val = hi
                      THEN "AboveThreshold"
                      ELSE IF F32_lt(parsed.val, lo) \/ parsed.val = lo
                      THEN "BelowThreshold"
                      ELSE "WithinTolerance"]

\* BidirectionalThreshold::get_state: reads the input; panics (unwrap) when
\* the reading does not parse
get_state(c, reading) ==
    LET rd == Input_read(c.input, reading)
        parsed == ParseF32(rd.ret)
        c1 == [c EXCEPT !.input = rd.self]
    IN  IF ~parsed.ok
        THEN [self |-> c1, panic |-> TRUE, ret |-> "WithinTolerance"]
        ELSE [self |-> c1, panic |-> FALSE,
              ret |-> IF F32_gt(parsed.val, F32_add(c.threshold, c.tolerance))
                      THEN "AboveThreshold"
                      ELSE IF F32_lt(parsed.val,
                                     F32_sub(c.threshold, c.tolerance))
                      THEN "BelowThreshold"
                      ELSE "WithinTolerance"]

\* a handler that starts lowering without releasing the increase Output
Bidirectional_handle_above_threshold_no_release(c) ==
    [c EXCEPT !.decrease_output = Output_activate(@)]

\* BidirectionalThreshold::handle_above_threshold
Bidirectional_handle_above_threshold(c) ==
    [c EXCEPT !.decrease_output = Output_activate(@),
              !.increase_output = Output_deactivate(@)]

\* BidirectionalThreshold::handle_below_threshold
Bidirectional_handle_below_threshold(c) ==
    [c EXCEPT !.increase_output = Output_activate(@),
              !.decrease_output = Output_deactivate(@)]

handle_within_tolerance_lazy(c) ==
    [c EXCEPT !.increase_output =
                  IF @.state = Some(TRUE) THEN Output_deactivate(@) ELSE @,
              !.decrease_output =
                  IF @.state = Some(TRUE) THEN Output_deactivate(@) ELSE @]

\* BidirectionalThreshold::handle_within_tolerance
handle_within_tolerance(c) ==
    [c EXCEPT !.increase_output = Output_deactivate(@),
              !.decrease_output = Output_deactivate(@)]

\* handlers that release the one Output before they activate the other
handle_callbacks_release_first(state) ==
    CASE state = "AboveThreshold" ->
             << <<"increase", FALSE>>, <<"decrease", TRUE>> >>
      [] state = "BelowThreshold" ->
             << <<"decrease", FALSE>>, <<"increase", TRUE>> >>
      [] OTHER ->
             << <<"increase", FALSE>>, <<"decrease", FALSE>> >>

\* the two Output commands of handle_above_threshold, handle_below_threshold
\* and handle_within_tolerance, in the order the handler issues them: the
\* Output commanded and whether it is activated
handle_callbacks(state) ==
    CASE state = "AboveThreshold" ->
             << <<"decrease", TRUE>>, <<"increase", FALSE>> >>
      [] state = "BelowThreshold" ->
             << <<"increase", TRUE>>, <<"decrease", FALSE>> >>
      [] OTHER ->
             << <<"increase", FALSE>>, <<"decrease", FALSE>> >>

\* one Output command of a handler: the Output's state is set and its
\* callback invoked
Callback(c, cb) ==
    IF cb[1] = "increase"
    THEN [c EXCEPT !.increase_output =
                       IF cb[2] THEN Output_activate(@) ELSE Output_deactivate(@)]
    ELSE [c EXCEPT !.decrease_output =
                       IF cb[2] THEN Output_activate(@) ELSE Output_deactivate(@)]

\* BidirectionalThreshold::poll(time), with `reading` what the input device
\* returns if it is read.  An Event that is not a Read is consumed and the
\* poll returns None.
BidirectionalThreshold_poll(c, time, reading) ==
    LET att == attempt_execution(c.schedule, time)
        c1  == [c EXCEPT !.schedule = att.self]
    IN  IF ~att.ret.some
        THEN [self |-> c, ret |-> Returned(None)]
        ELSE IF att.ret.val.action # "Read"
        THEN [self |-> c1, ret |-> Returned(None)]
        ELSE LET st == get_state(c1, reading)
             IN  IF st.panic
                 THEN [self |-> st.self, ret |-> Panicked]
                 ELSE LET c2 == CASE st.ret = "AboveThreshold" ->
                                       Bidirectional_handle_above_threshold(st.self)
                                  [] st.ret = "BelowThreshold" ->
                                       Bidirectional_handle_below_threshold(st.self)
                                  [] OTHER -> handle_within_tolerance(st.self)
                          msg == CASE st.ret = "AboveThreshold" -> "Above Threshold"
                                   [] st.ret = "BelowThreshold" -> "Below Threshold"
                                   [] OTHER -> "Within Tolerance"
                          c3 == schedule_next_in_place(c2, time)
                      IN  [self |-> c3,
                           ret  |-> Returned(Some(Message_new(
                                       NameOrDefault(c3), msg,
                                       att.ret.val.timestamp,
                                       Input_get_state(c3.input))))]

----------------------------------------------------------------------------
(* controllers/timed.rs *)

\* the instant at time-of-day tod on the calendar day of `time`
\* (with_hour / with_minute / with_second / with_nanosecond(0))
WithTimeOfDay(time, tod) == (time \div DayLen) * DayLen + tod

\* time.naive_utc().time()
TimeOfDay(time) == time % DayLen

\* TimedOutput::new
TimedOutput_new(start_time, duration) ==
    [name |-> None, output |-> Output_new, start_time |-> start_time,
     duration |-> duration, scheduler |-> Scheduler_new]

TimedOutput_schedule_on_le(c, time) ==
    LET current_time == TimeOfDay(time)
        t == WithTimeOfDay(time, c.start_time)
        start_time == IF current_time <= c.start_time THEN t ELSE t + DayLen
    IN  [c EXCEPT !.scheduler = schedule_on(@, start_time)]

TimedOutput_schedule_on_tomorrow(c, time) ==
    LET t == WithTimeOfDay(time, c.start_time)
    IN  [c EXCEPT !.scheduler = schedule_on(@, t + DayLen)]

\* TimedOutput::schedule_on(time)
TimedOutput_schedule_on(c, time) ==
    LET current_time == TimeOfDay(time)
        t == WithTimeOfDay(time, c.start_time)
        start_time == IF current_time < c.start_time THEN t ELSE t + DayLen
    IN  [c EXCEPT !.scheduler = schedule_on(@, start_time)]

\* a schedule_off that arms an On where the Off belongs
TimedOutput_schedule_off_arms_on(c, time) ==
    LET t == WithTimeOfDay(time, c.start_time)
        end_time == t + c.duration
    IN  [c EXCEPT !.scheduler = schedule_on(@, end_time)]

TimedOutput_schedule_off_from_now(c, time) ==
    [c EXCEPT !.scheduler = schedule_off(@, time + c.duration)]

\* TimedOutput::schedule_off(time)
TimedOutput_schedule_off(c, time) ==
    LET t == WithTimeOfDay(time, c.start_time)
        end_time == t + c.duration
    IN  [c EXCEPT !.scheduler = schedule_off(@, end_time)]

\* TimedOutput::schedule_first(time)
TimedOutput_schedule_first(c, time) == TimedOutput_schedule_on(c, time)

TimedOutput_poll_silent_off(c, time) ==
    LET att == attempt_execution(c.scheduler, time)
        c1  == [c EXCEPT !.scheduler = att.self]
    IN  IF ~att.ret.some
        THEN [self |-> c, ret |-> Returned(None)]
        ELSE IF att.ret.val.action = "On"
        THEN LET c2 == TimedOutput_schedule_off(
                           [c1 EXCEPT !.output = Output_activate(@)], time)
             IN  [self |-> c2,
                  ret  |-> Returned(Some(Message_new(
                              NameOrDefault(c2), "Activated", time, None)))]
        ELSE IF att.ret.val.action = "Off"
        THEN [self |-> TimedOutput_schedule_on(
                           [c1 EXCEPT !.output = Output_deactivate(@)], time),
              ret  |-> Returned(None)]
        ELSE [self |-> c1, ret |-> Panicked]

\* TimedOutput::poll(time)
TimedOutput_poll(c, time) ==
    LET att == attempt_execution(c.scheduler, time)
        c1  == [c EXCEPT !.scheduler = att.self]
    IN  IF ~att.ret.some
        THEN [self |-> c, ret |-> Returned(None)]
        ELSE IF att.ret.val.action = "On"
        THEN LET c2 == TimedOutput_schedule_off(
                           [c1 EXCEPT !.output = Output_activate(@)], time)
             IN  [self |-> c2,
                  ret  |-> Returned(Some(Message_new(
                              NameOrDefault(c2), "Activated", time, None)))]
        ELSE IF att.ret.val.action = "Off"
        THEN LET c2 == TimedOutput_schedule_on(
                           [c1 EXCEPT !.output = Output_deactivate(@)], time)
             IN  [self |-> c2,
                  ret  |-> Returned(Some(Message_new(
                              NameOrDefault(c2), "Deactivated", time, None)))]
        ELSE [self |-> c1, ret |-> Panicked]

----------------------------------------------------------------------------
(* controllers/mod.rs, group.rs *)

\* Controller::set_name(name), the same in the three controllers
set_name(c, name) == [c EXCEPT !.name = Some(name)]

\* A Box<dyn Controller>: the controller and the type `poll` dispatches on
Boxed(kind, c) == [kind |-> kind, c |-> c]

\* Controller::poll(time) through the trait object; `reading` is what the
\* controller's input device returns if it is read
Controller_poll(m, time, reading) ==
    LET r == CASE m.kind = "Threshold" -> Threshold_poll(m.c, time, reading)
               [] m.kind = "TimedOutput" -> TimedOutput_poll(m.c, time)
               [] m.kind = "BidirectionalThreshold" ->
                      BidirectionalThreshold_poll(m.c, time, reading)
    IN  [self |-> [m EXCEPT !.c = r.self], ret |-> r.ret]

\* the Scheduler a boxed controller owns
Controller_scheduler(m) ==
    IF m.kind = "TimedOutput" THEN m.c.scheduler ELSE m.c.schedule

\* ControllerGroup::new
ControllerGroup_new == [controllers |-> <<>>]

\* ControllerGroup::add_controller
add_controller(g, m) == [g EXCEPT !.controllers = Append(@, m)]

push_front(messages, message) == <<message>> \o messages

\* Vec::push
push(messages, message) == Append(messages, message)

\* the loop of ControllerGroup::poll from the i-th controller on; a panic
\* of a controller's poll unwinds out of the loop.  r, the outcome of the
\* i-th controller's poll, is bound once for the round.
RECURSIVE ControllerGroup_poll_from(_, _, _, _, _)
ControllerGroup_poll_from(g, i, time, readings, messages) ==
    IF i > Len(g.controllers)
    THEN [self |-> g, ret |-> Returned(messages)]
    ELSE CHOOSE round \in
             { LET g1 == [g EXCEPT !.controllers[i] = r.self]
               IN  IF r.ret.panic
                   THEN [self |-> g1, ret |-> Panicked]
                   ELSE ControllerGroup_poll_from(g1, i + 1, time, readings,
                            IF r.ret.val.some
                            THEN push(messages, r.ret.val.val)
                            ELSE messages)
               : r \in {Controller_poll(g.controllers[i], time,
                                        readings[i])} } : TRUE

\* a poll that goes through the controllers a second time
\* a poll whose loop is left after its first round
ControllerGroup_poll_first_member(g, time, readings) ==
    IF g.controllers = <<>>
    THEN [self |-> g, ret |-> Returned(<<>>)]
    ELSE LET r == Controller_poll(g.controllers[1], time, readings[1])
         IN  [self |-> [g EXCEPT !.controllers[1] = r.self],
              ret  |-> IF r.ret.panic THEN Panicked
                       ELSE IF r.ret.val.some
                       THEN Returned(push(<<>>, r.ret.val.val))
                       ELSE Returned(<<>>)]

ControllerGroup_poll_twice(g, time, readings) ==
    LET r == ControllerGroup_poll_from(g, 1, time, readings, <<>>)
    IN  IF r.ret.panic
        THEN r
        ELSE ControllerGroup_poll_from(r.self, 1, time, readings, r.ret.val)

ControllerGroup_poll_rollback(g, time, readings) ==
    LET r == ControllerGroup_poll_from(g, 1, time, readings, <<>>)
    IN  IF r.ret.panic THEN [self |-> g, ret |-> Panicked] ELSE r

\* ControllerGroup::poll(time)
ControllerGroup_poll(g, time, readings) ==
    ControllerGroup_poll_from(g, 1, time, readings, <<>>)

----------------------------------------------------------------------------
(* emitter.rs, runtime.rs *)

\* Emitter::new
Emitter_new(url) == [url |-> url]

\* what the sink does with a POST: it answers with a success status, it
\* answers with an error status, or the request cannot be sent
Responses == {"success", "error_status", "send_error"}

\* Emitter::emit: Err when send() fails or error_for_status() finds an error
\* status, Ok(()) otherwise
Emitter_emit(emitter, messages, response) ==
    IF response = "send_error"
    THEN [ok |-> FALSE]
    ELSE IF response = "error_status"
         THEN [ok |-> FALSE]
         ELSE [ok |-> TRUE]

\* Runtime::new: no emitter attached
Runtime_new(g, interval) ==
    [emitter |-> None, group |-> g, interval |-> interval]

\* Runtime::build_emitter
build_emitter(rt, url) == [rt EXCEPT !.emitter = Some(Emitter_new(url))]

\* Runtime::has_emitter
has_emitter(rt) == rt.emitter.some

\* the first statement of Runtime::run, with `now` what Utc::now() returns
Runtime_run_enter(rt, now) == now + rt.interval

\* a pass of the loop of Runtime::run up to its first await, with `now`
\* what Utc::now() returns and `readings` what the input devices return.
\* polled: the group was polled; messages: what the poll returned; emit:
\* "pending" when the pass is suspended in emitter.emit(messages).await,
\* the Messages with the sink and next_execution_time not yet written,
\* "none" when emit is not called and the pass goes on to the sleep; ret:
\* Panicked when the poll panicked
Runtime_run_poll(rt, next_execution_time, now, readings) ==
    IF now >= next_execution_time
    THEN CHOOSE pass \in
           { LET rt1 == [rt EXCEPT !.group = r.self]
             IN  IF r.ret.panic
                 THEN [self |-> rt1,
                       next_execution_time |-> next_execution_time,
                       polled |-> TRUE, messages |-> <<>>,
                       emit |-> "none", ret |-> Panicked]
                 ELSE IF Len(r.ret.val) > 0 /\ rt.emitter.some
                      THEN [self |-> rt1,
                            next_execution_time |-> next_execution_time,
                            polled |-> TRUE, messages |-> r.ret.val,
                            emit |-> "pending", ret |-> Returned(None)]
                      ELSE [self |-> rt1,
                            next_execution_time |-> now + rt.interval,
                            polled |-> TRUE, messages |-> r.ret.val,
                            emit |-> "none", ret |-> Returned(None)]
             : r \in {ControllerGroup_poll(rt.group, now, readings)} } : TRUE
    ELSE [self |-> rt, next_execution_time |-> next_execution_time,
          polled |-> FALSE, messages |-> <<>>, emit |-> "none",
          ret |-> Returned(None)]

\* the rest of that pass once emit has ended, `response` being what the
\* sink did: unwrap() panics on an Err, and then next_execution_time is not
\* written; on Ok the pass goes on to the sleep
Runtime_run_emitted(rt, next_execution_time, now, messages, response) ==
    IF Emitter_emit(rt.emitter.val, messages, response).ok
    THEN [next_execution_time |-> now + rt.interval, emit |-> "ok",
          ret |-> Returned(None)]
    ELSE [next_execution_time |-> next_execution_time, emit |-> "err",
          ret |-> Panicked]

----------------------------------------------------------------------------
(* The objects under test and the calls made on them *)

\* the Scheduler of the object under test
Sched ==
    IF scheduler # Absent THEN scheduler
    ELSE IF threshold # Absent THEN threshold.schedule
    ELSE IF bidirectional # Absent THEN bidirectional.schedule
    ELSE timed.scheduler

\* id of the Event a call moved to the fired history, 0 when it moved none
FiredId(before, after) ==
    IF Len(after.events) > Len(before.events)
    THEN after.events[Len(after.events)].id
    ELSE 0

\* The record of a call: its name and instant, the id of the Event it fired
\* (0: none) and, when the call before it was the same call at the same
\* instant, the id of the Event that earlier call fired (0 otherwise); the
\* number of Messages the polls of the controller have returned so far; and
\* the instant of the last poll that fired a Read and returned its Message
\* (-1: none yet).
NoCall == [name |-> "new", time |-> 0, fired |-> 0, after |-> 0,
           messages |-> 0, read_at |-> -1]
Call(name, time, before, after) ==
    [name |-> name, time |-> time, fired |-> FiredId(before, after),
     after |-> IF op.name = name /\ op.time = time THEN op.fired ELSE 0,
     messages |-> IF name = "poll" /\ ~ret'.panic /\ ret'.val.some
                  THEN op.messages + 1
                  ELSE op.messages,
     read_at |-> IF /\ name = "poll" /\ ~ret'.panic /\ ret'.val.some
                    /\ Len(after.events) > 0
                    /\ after.events[Len(after.events)].action = "Read"
                 THEN time
                 ELSE op.read_at]

InitScheduler ==
    /\ scheduler = Scheduler_new
    /\ threshold = Absent
    /\ timed = Absent
    /\ bidirectional = Absent

InitThreshold ==
    /\ scheduler = Absent
    /\ timed = Absent
    /\ bidirectional = Absent
    /\ \E thr \in Thresholds, interval \in Intervals, inverted \in BOOLEAN,
          time \in Times :
          LET c == Threshold_new_without_scheduled(thr, interval)
              d == IF inverted THEN Threshold_set_inverted(c) ELSE c
          IN  /\ threshold = Threshold_schedule_next(d, time)
              /\ op = [name |-> "schedule_next", time |-> time,
                       fired |-> 0, after |-> 0,
                       messages |-> 0, read_at |-> -1]

InitTimed ==
    /\ scheduler = Absent
    /\ threshold = Absent
    /\ bidirectional = Absent
    /\ \E start_time \in StartTimes, duration \in Durations,
          time \in 0..(DayLen - 1) :
          /\ timed = TimedOutput_schedule_first(
                         TimedOutput_new(start_time, duration), time)
          /\ op = [name |-> "schedule_first", time |-> time,
                   fired |-> 0, after |-> 0,
                       messages |-> 0, read_at |-> -1]

InitBidirectional ==
    /\ scheduler = Absent
    /\ threshold = Absent
    /\ timed = Absent
    /\ \E thr \in BidirectionalThresholds, tolerance \in Tolerances,
          interval \in Intervals, time \in Times :
          /\ bidirectional = BidirectionalThreshold_schedule_next(
                 BidirectionalThreshold_new(thr, tolerance, interval), time)
          /\ op = [name |-> "schedule_next", time |-> time,
                   fired |-> 0, after |-> 0,
                       messages |-> 0, read_at |-> -1]

Init ==
    /\ ret = Returned(None)
    /\ group = Absent
    /\ output = Absent
    /\ runtime = Absent
    /\ \/ InitScheduler /\ op = NoCall
       \/ InitThreshold
       \/ InitTimed
       \/ InitBidirectional

\* scheduler.schedule_on(time)
ScheduleOn(time) ==
    /\ scheduler # Absent
    /\ scheduler.created < MaxEvents
    /\ scheduler' = schedule_on(scheduler, time)
    /\ op' = Call("schedule_on", time, scheduler, scheduler')
    /\ ret' = Returned(None)
    /\ UNCHANGED <<runtime, threshold, timed, bidirectional, group, output>>

\* scheduler.schedule_off(time)
ScheduleOff(time) ==
    /\ scheduler # Absent
    /\ scheduler.created < MaxEvents
    /\ scheduler' = schedule_off(scheduler, time)
    /\ op' = Call("schedule_off", time, scheduler, scheduler')
    /\ ret' = Returned(None)
    /\ UNCHANGED <<runtime, threshold, timed, bidirectional, group, output>>

\* scheduler.schedule_read(time)
ScheduleRead(time) ==
    /\ scheduler # Absent
    /\ scheduler.created < MaxEvents
    /\ scheduler' = schedule_read(scheduler, time)
    /\ op' = Call("schedule_read", time, scheduler, scheduler')
    /\ ret' = Returned(None)
    /\ UNCHANGED <<runtime, threshold, timed, bidirectional, group, output>>

\* scheduler.attempt_execution(time)
AttemptExecution(time) ==
    /\ scheduler # Absent
    /\ LET r == attempt_execution(scheduler, time)
       IN  /\ scheduler' = r.self
           /\ ret' = Returned(r.ret)
    /\ op' = Call("attempt_execution", time, scheduler, scheduler')
    /\ UNCHANGED <<runtime, threshold, timed, bidirectional, group, output>>

\* threshold.poll(time), the input device returning `reading` if read
ThresholdPoll(time, reading) ==
    /\ threshold # Absent
    /\ threshold.schedule.created < MaxControllerEvents
    /\ LET r == Threshold_poll(threshold, time, reading)
       IN  /\ threshold' = r.self
           /\ ret' = r.ret
    /\ op' = Call("poll", time, threshold.schedule, threshold'.schedule)
    /\ UNCHANGED <<runtime, scheduler, timed, bidirectional, group, output>>

\* timed.poll(time)
TimedPoll(time) ==
    /\ timed # Absent
    /\ timed.scheduler.created < MaxControllerEvents
    /\ LET r == TimedOutput_poll(timed, time)
       IN  /\ timed' = r.self
           /\ ret' = r.ret
    /\ op' = Call("poll", time, timed.scheduler, timed'.scheduler)
    /\ UNCHANGED <<runtime, scheduler, threshold, bidirectional, group, output>>

\* bidirectional.poll(time), the input device returning `reading` if read
BidirectionalPoll(time, reading) ==
    /\ bidirectional # Absent
    /\ bidirectional.schedule.created < MaxControllerEvents
    /\ LET r == BidirectionalThreshold_poll(bidirectional, time, reading)
       IN  /\ bidirectional' = r.self
           /\ ret' = r.ret
    /\ op' = Call("poll", time, bidirectional.schedule, bidirectional'.schedule)
    /\ UNCHANGED <<runtime, scheduler, threshold, timed, group, output>>

\* The record of a call that sets a field: it fires nothing and returns
\* nothing, and the counts of the polls so far are kept
Setter(name) == [op EXCEPT !.name = name, !.fired = 0, !.after = 0]

\* threshold.set_threshold(thr)
ThresholdSetThreshold(thr) ==
    /\ threshold # Absent
    /\ threshold' = Threshold_set_threshold(threshold, thr)
    /\ op' = Setter("set_threshold")
    /\ ret' = Returned(None)
    /\ UNCHANGED <<runtime, scheduler, timed, bidirectional, group, output>>

\* threshold.set_name(name)
ThresholdSetName(name) ==
    /\ threshold # Absent
    /\ threshold' = set_name(threshold, name)
    /\ op' = Setter("set_name")
    /\ ret' = Returned(None)
    /\ UNCHANGED <<runtime, scheduler, timed, bidirectional, group, output>>

\* timed.set_name(name)
TimedSetName(name) ==
    /\ timed # Absent
    /\ timed' = set_name(timed, name)
    /\ op' = Setter("set_name")
    /\ ret' = Returned(None)
    /\ UNCHANGED <<runtime, scheduler, threshold, bidirectional, group, output>>

\* bidirectional.set_name(name)
BidirectionalSetName(name) ==
    /\ bidirectional # Absent
    /\ bidirectional' = set_name(bidirectional, name)
    /\ op' = Setter("set_name")
    /\ ret' = Returned(None)
    /\ UNCHANGED <<runtime, scheduler, threshold, timed, group, output>>

Next ==
    \/ \E thr \in Thresholds : ThresholdSetThreshold(thr)
    \/ \E name \in Names : ThresholdSetName(name)
    \/ \E name \in Names : TimedSetName(name)
    \/ \E name \in Names : BidirectionalSetName(name)
    \/ \E time \in SchedTimes : ScheduleOn(time)
    \/ \E time \in SchedTimes : ScheduleOff(time)
    \/ \E time \in SchedTimes : ScheduleRead(time)
    \/ \E time \in SchedTimes : AttemptExecution(time)
    \/ \E time \in Times, reading \in Readings : ThresholdPoll(time, reading)
    \/ \E time \in TimedTimes : TimedPoll(time)
    \/ \E time \in Times, reading \in Readings : BidirectionalPoll(time, reading)

\* the driver of test_poll: a TimedOutput polled at every time step, the
\* first poll at the instant it was scheduled
TimedPollEveryStep ==
    /\ timed # Absent
    /\ LET time == IF op.name = "schedule_first" THEN op.time
                   ELSE op.time + 1
       IN  /\ time <= MaxTimedTime
           /\ LET r == TimedOutput_poll(timed, time)
              IN  /\ timed' = r.self
                  /\ ret' = r.ret
           /\ op' = Call("poll", time, timed.scheduler, timed'.scheduler)
    /\ UNCHANGED <<runtime, scheduler, threshold, bidirectional, group, output>>

\* the set-up of test_poll: the TimedOutput is built and scheduled, and the
\* test then may force its Output off with output.output.deactivate() (the
\* field is private: only code of the module can do this)
InitEveryStep ==
    /\ ret = Returned(None)
    /\ group = Absent
    /\ output = Absent
    /\ runtime = Absent
    /\ scheduler = Absent
    /\ threshold = Absent
    /\ bidirectional = Absent
    /\ \E start_time \in StartTimes, duration \in Durations,
          time \in 0..(DayLen - 1), forced \in BOOLEAN :
          LET c == TimedOutput_schedule_first(
                       TimedOutput_new(start_time, duration), time)
          IN  /\ timed = IF forced
                         THEN [c EXCEPT !.output = Output_deactivate(@)]
                         ELSE c
              /\ op = [name |-> "schedule_first", time |-> time,
                       fired |-> 0, after |-> 0,
                       messages |-> 0, read_at |-> -1]

NextEveryStep == TimedPollEveryStep

\* Scheduler::schedule_on / schedule_off / schedule_read chosen by Action
schedule(s, action, timestamp) ==
    CASE action = "On" -> schedule_on(s, timestamp)
      [] action = "Off" -> schedule_off(s, timestamp)
      [] action = "Read" -> schedule_read(s, timestamp)

\* A controller whose Scheduler was handed an Event of an Action its kind
\* does not arm itself, before its own first Event was scheduled.  The
\* Scheduler field is private: only code of the controller's module (its
\* tests included) can do this, through the pub Scheduler::schedule_*.
InitForeign ==
    /\ scheduler = Absent
    /\ group = Absent
    /\ output = Absent
    /\ runtime = Absent
    /\ op = NoCall
    /\ ret = Returned(None)
    /\ \E action \in {"On", "Off"}, at \in Times, time \in Times :
          \/ /\ timed = Absent
             /\ bidirectional = Absent
             /\ \E thr \in Thresholds, interval \in Intervals :
                   LET c == Threshold_new_without_scheduled(thr, interval)
                       d == [c EXCEPT !.schedule = schedule(@, action, at)]
                   IN  threshold = Threshold_schedule_next(d, time)
          \/ /\ threshold = Absent
             /\ timed = Absent
             /\ \E thr \in BidirectionalThresholds, tolerance \in Tolerances,
                   interval \in Intervals :
                   LET c == BidirectionalThreshold_new(thr, tolerance, interval)
                       d == [c EXCEPT !.schedule = schedule(@, action, at)]
                   IN  bidirectional =
                           BidirectionalThreshold_schedule_next(d, time)
          \/ /\ threshold = Absent
             /\ bidirectional = Absent
             /\ \E start_time \in StartTimes, duration \in Durations :
                   LET c == TimedOutput_new(start_time, duration)
                       d == [c EXCEPT !.scheduler = schedule(@, "Read", at)]
                   IN  timed = TimedOutput_schedule_first(d, time)

NextForeign ==
    \/ \E time \in Times, reading \in Readings : ThresholdPoll(time, reading)
    \/ \E time \in TimedTimes : TimedPoll(time)
    \/ \E time \in Times, reading \in Readings : BidirectionalPoll(time, reading)

SpecForeign == InitForeign /\ [][NextForeign]_vars

\* Output::new(callback); op.commands lists the booleans of the activate
\* (TRUE) and deactivate (FALSE) calls made so far
InitOutput ==
    /\ scheduler = Absent
    /\ threshold = Absent
    /\ timed = Absent
    /\ bidirectional = Absent
    /\ group = Absent
    /\ output = Output_new
    /\ runtime = Absent
    /\ op = [name |-> "new", commands |-> <<>>]
    /\ ret = Returned(None)

\* output.activate()
Activate ==
    /\ output # Absent
    /\ Len(op.commands) < MaxCommands
    /\ output' = Output_activate(output)
    /\ op' = [name |-> "activate", commands |-> Append(op.commands, TRUE)]
    /\ ret' = Returned(None)
    /\ UNCHANGED <<runtime, scheduler, threshold, timed, bidirectional, group>>

\* output.deactivate()
Deactivate ==
    /\ output # Absent
    /\ Len(op.commands) < MaxCommands
    /\ output' = Output_deactivate(output)
    /\ op' = [name |-> "deactivate", commands |-> Append(op.commands, FALSE)]
    /\ ret' = Returned(None)
    /\ UNCHANGED <<runtime, scheduler, threshold, timed, bidirectional, group>>

NextOutput == Activate \/ Deactivate

SpecOutput == InitOutput /\ [][NextOutput]_vars

\* samples below, inside and above the band of every configuration, and a
\* malformed one
CallbackReadings == {"0.0", "1.0", "2.0", "abc"}

\* A BidirectionalThreshold whose poll is followed callback by callback.
\* op.pc counts the Output callbacks the running poll has invoked (0: no
\* poll is running); op.time, op.reading and op.state are the instant, the
\* sample and the State returned by get_state of the last poll that invoked
\* a callback, op.before the controller as the last poll found it.
InitCallbacks ==
    /\ scheduler = Absent
    /\ threshold = Absent
    /\ timed = Absent
    /\ group = Absent
    /\ output = Absent
    /\ runtime = Absent
    /\ ret = Returned(None)
    /\ \E thr \in BidirectionalThresholds, tolerance \in Tolerances,
          interval \in Intervals, time \in Times :
          /\ bidirectional = BidirectionalThreshold_schedule_next(
                 BidirectionalThreshold_new(thr, tolerance, interval), time)
          /\ op = [name |-> "schedule_next", time |-> time, reading |-> "",
                   before |-> bidirectional, state |-> "WithinTolerance",
                   pc |-> 0]

\* bidirectional.poll(time) when no Read is due or the reading is malformed:
\* the poll returns or unwinds without invoking a callback
PollNoCallback(time, reading) ==
    /\ bidirectional # Absent
    /\ op.pc = 0
    /\ \E r \in {BidirectionalThreshold_poll(bidirectional, time, reading)} :
          /\ r.ret.panic \/ ~r.ret.val.some
          /\ bidirectional' = r.self
          /\ ret' = r.ret
    /\ op' = [op EXCEPT !.name = "poll", !.before = bidirectional]
    /\ UNCHANGED <<runtime, scheduler, threshold, timed, group, output>>

\* bidirectional.poll(time) up to and including the first Output callback
\* of the handler: the Read is fired, the Input read and classified
PollFirstCallback(time, reading) ==
    /\ bidirectional # Absent
    /\ op.pc = 0
    /\ bidirectional.schedule.created < MaxControllerEvents
    /\ LET att == attempt_execution(bidirectional.schedule, time)
           c1  == [bidirectional EXCEPT !.schedule = att.self]
       IN  /\ att.ret.some
           /\ att.ret.val.action = "Read"
           /\ \E st \in {get_state(c1, reading)} :
                 /\ ~st.panic
                 /\ bidirectional' =
                        Callback(st.self, handle_callbacks(st.ret)[1])
                 /\ op' = [name |-> "poll", time |-> time,
                           reading |-> reading, before |-> bidirectional,
                           state |-> st.ret, pc |-> 1]
    /\ UNCHANGED <<runtime, scheduler, threshold, timed, group, output, ret>>

\* the rest of the running poll: the second Output callback of the handler,
\* schedule_next_in_place and the return of the Message
PollSecondCallback ==
    /\ bidirectional # Absent
    /\ op.pc = 1
    /\ bidirectional' =
           schedule_next_in_place(
               Callback(bidirectional, handle_callbacks(op.state)[2]),
               op.time)
    /\ ret' = BidirectionalThreshold_poll(op.before, op.time, op.reading).ret
    /\ op' = [op EXCEPT !.pc = 0]
    /\ UNCHANGED <<runtime, scheduler, threshold, timed, group, output>>

NextCallbacks ==
    \/ \E time \in Times, reading \in CallbackReadings :
          PollNoCallback(time, reading)
    \/ \E time \in Times, reading \in CallbackReadings :
          PollFirstCallback(time, reading)
    \/ PollSecondCallback

SpecCallbacks == InitCallbacks /\ [][NextCallbacks]_vars

\* ControllerGroup::new()
InitGroup ==
    /\ scheduler = Absent
    /\ threshold = Absent
    /\ timed = Absent
    /\ bidirectional = Absent
    /\ group = ControllerGroup_new
    /\ output = Absent
    /\ runtime = Absent
    /\ op = [name |-> "new", time |-> 0, readings |-> <<>>, fired |-> <<>>,
             polls |-> 0]
    /\ ret = Returned(None)

\* the controllers a group is built from, each scheduled at instant 0 and
\* named after its position in the group (as in tests::test_poll): a
\* Threshold reading every tick, a TimedOutput on from tick 1 for one tick
\* and a BidirectionalThreshold reading every two ticks
GroupControllers(name) ==
    { Boxed("Threshold", set_name(Threshold_schedule_next(
          Threshold_new_without_scheduled(F32(2), 1), 0), name)),
      Boxed("TimedOutput", set_name(TimedOutput_schedule_first(
          TimedOutput_new(1, 1), 0), name)),
      Boxed("BidirectionalThreshold", set_name(
          BidirectionalThreshold_schedule_next(
              BidirectionalThreshold_new(F32(2), F32(1), 2), 0), name)) }

\* group = group.add_controller(controller)
AddController ==
    /\ group # Absent
    /\ Len(group.controllers) < MaxGroupSize
    /\ op.name = "new"
    /\ \E m \in GroupControllers(ToString(Len(group.controllers) + 1)) :
          group' = add_controller(group, m)
    /\ UNCHANGED <<runtime, scheduler, threshold, timed, bidirectional, output, op, ret>>

\* group.poll(time), the input device of the i-th controller returning
\* readings[i] if read; the instants of successive polls do not decrease
\* (Runtime::run polls with successive values of Utc::now())
GroupPoll(time, readings) ==
    /\ group # Absent
    /\ op.polls < MaxGroupPolls
    /\ time >= op.time
    /\ \E r \in {ControllerGroup_poll(group, time, readings)} :
           /\ group' = r.self
           /\ ret' = r.ret
           /\ op' = [name |-> "group_poll", time |-> time,
                     readings |-> readings,
                     fired |-> [i \in DOMAIN group.controllers |->
                         FiredId(Controller_scheduler(group.controllers[i]),
                                 Controller_scheduler(r.self.controllers[i]))],
                     polls |-> op.polls + 1]
    /\ UNCHANGED <<runtime, scheduler, threshold, timed, bidirectional, output>>

\* what the input devices of the controllers of the group may return: one
\* reading per controller, the empty reading for a TimedOutput, which has no
\* input device
GroupReadingsOf(g) ==
    {r \in [DOMAIN g.controllers -> GroupReadings \cup {""}] :
        \A i \in DOMAIN g.controllers :
            (g.controllers[i].kind = "TimedOutput") <=> (r[i] = "")}

NextGroup ==
    \/ AddController
    \/ \E time \in GroupTimes, readings \in GroupReadingsOf(group) :
          GroupPoll(time, readings)

\* what the input devices return when no reading is malformed
WellFormedReadingsOf(g) ==
    {r \in GroupReadingsOf(g) :
        \A i \in DOMAIN g.controllers : r[i] \in {"", "1.5"}}

\* group.poll(time) at an instant later than the last poll: Runtime::run
\* polls at now >= next_execution_time, the instant of the last poll plus
\* the interval
PollLater ==
    /\ group # Absent
    /\ \E time \in (op.time + 1)..MaxLiveTime :
       \E readings \in WellFormedReadingsOf(group) :
       \E r \in {ControllerGroup_poll(group, time, readings)} :
           /\ time <= op.time + 2
           /\ group' = r.self
           /\ ret' = r.ret
           /\ op' = [name |-> "group_poll", time |-> time,
                     readings |-> readings,
                     fired |-> [i \in DOMAIN group.controllers |->
                         FiredId(Controller_scheduler(group.controllers[i]),
                                 Controller_scheduler(r.self.controllers[i]))],
                     polls |-> 0]
    /\ UNCHANGED <<runtime, scheduler, threshold, timed, bidirectional, output>>

\* the groups of n controllers, built by add_controller
RECURSIVE GroupsOf(_)
GroupsOf(n) ==
    IF n = 0
    THEN {ControllerGroup_new}
    ELSE {add_controller(g, m) :
             g \in GroupsOf(n - 1), m \in GroupControllers(ToString(n))}

\* a group in the hands of that driver, which has no Messages yet
InitLive ==
    /\ scheduler = Absent
    /\ threshold = Absent
    /\ timed = Absent
    /\ bidirectional = Absent
    /\ \E n \in 1..MaxLiveSize : group \in GroupsOf(n)
    /\ output = Absent
    /\ runtime = Absent
    /\ op = [name |-> "new", time |-> 0, readings |-> <<>>, fired |-> <<>>,
             polls |-> 0]
    /\ ret = Returned(<<>>)

NextLive == PollLater

\* a group polled for ever by a driver whose clock does not stand still:
\* the loop of Runtime::run never ends and Utc::now() grows
SpecLive == InitLive /\ [][NextLive]_vars /\ WF_vars(PollLater)

\* a Runtime over a group of up to MaxRunSize controllers, with or without
\* an emitter; run() has not been called
InitRuntime ==
    /\ scheduler = Absent
    /\ threshold = Absent
    /\ timed = Absent
    /\ bidirectional = Absent
    /\ group = Absent
    /\ output = Absent
    /\ \E n \in 0..MaxRunSize : \E g \in GroupsOf(n) :
       \E interval \in RunIntervals, emitter \in BOOLEAN :
           runtime = IF emitter
                     THEN build_emitter(Runtime_new(g, interval), "url")
                     ELSE Runtime_new(g, interval)
    /\ op = [name |-> "new", now |-> 0, next_execution_time |-> 0,
             polled |-> FALSE, messages |-> <<>>, emit |-> "none"]
    /\ ret = Returned(None)

\* run() is called and computes the first execution time; it can be called
\* again when its future was dropped
RunEnter ==
    /\ runtime # Absent
    /\ op.name = "new"
    /\ \E now \in op.now..MaxRunTime :
           /\ now <= op.now + 1
           /\ op' = [op EXCEPT !.name = "run", !.now = now,
                     !.next_execution_time = Runtime_run_enter(runtime, now)]
    /\ UNCHANGED <<scheduler, threshold, timed, bidirectional, group, output,
                   runtime, ret>>

\* a pass of the loop of run() starts, right after run() was entered or
\* when the sleep of at least one tick that ends the pass before it is
\* over, and runs up to its first await: the emit, if the group was polled
\* and there is something to deliver, else the sleep.  The clock does not
\* go back.  A poll that panicked ends run()
RunPoll ==
    /\ runtime # Absent
    /\ op.name \in {"run", "sleep"}
    /\ ~ret.panic
    /\ \E now \in (op.now + (IF op.name = "run" THEN 0 ELSE 1))..MaxRunTime :
       \E readings \in GroupReadingsOf(runtime.group) :
       \E pass \in {Runtime_run_poll(runtime, op.next_execution_time, now,
                                     readings)} :
           /\ now <= op.now + 2
           /\ runtime' = pass.self
           /\ ret' = pass.ret
           /\ op' = [name |-> IF pass.ret.panic THEN "end"
                              ELSE IF pass.emit = "pending" THEN "emit"
                              ELSE "sleep",
                     now |-> now,
                     next_execution_time |-> pass.next_execution_time,
                     polled |-> pass.polled, messages |-> pass.messages,
                     emit |-> pass.emit]
    /\ UNCHANGED <<scheduler, threshold, timed, bidirectional, group, output>>

\* the sink has answered, or the request could not be sent: emit ends and
\* the pass goes on to the sleep, or panics in the unwrap()
RunEmitted ==
    /\ runtime # Absent
    /\ op.name = "emit"
    /\ \E response \in Responses :
       \E pass \in {Runtime_run_emitted(runtime, op.next_execution_time,
                                        op.now, op.messages, response)} :
           /\ ret' = pass.ret
           /\ op' = [op EXCEPT !.name = IF pass.ret.panic THEN "end"
                                         ELSE "sleep",
                     !.next_execution_time = pass.next_execution_time,
                     !.emit = pass.emit]
    /\ UNCHANGED <<scheduler, threshold, timed, bidirectional, group, output,
                   runtime>>

\* the future of run() is dropped while it is suspended in the emit or in
\* the sleep (its task is aborted, or a timeout around it ends): the locals
\* of run() are lost, the Runtime keeps what the polls did to it
RunDrop ==
    /\ runtime # Absent
    /\ op.name \in {"emit", "sleep"}
    /\ ~ret.panic
    /\ op' = [name |-> "new", now |-> op.now, next_execution_time |-> 0,
              polled |-> FALSE, messages |-> <<>>, emit |-> "none"]
    /\ UNCHANGED <<scheduler, threshold, timed, bidirectional, group, output,
                   runtime, ret>>

NextRuntime == RunEnter \/ RunPoll \/ RunEmitted \/ RunDrop

SpecRuntime == InitRuntime /\ [][NextRuntime]_vars

SpecGroup == InitGroup /\ [][NextGroup]_vars

SpecEveryStep == InitEveryStep /\ [][NextEveryStep]_vars

Spec == Init /\ [][Next]_vars

----------------------------------------------------------------------------
(* Vocabulary of the properties *)

Pending == Sched.future_events
History == Sched.events

Indices(q) == 1..Len(q)
IdsOf(q) == {q[i].id : i \in Indices(q)}

\* q2 is q with its i-th element taken out and the order of the rest kept
IsWithout(q2, q, i) ==
    /\ i \in Indices(q)
    /\ Len(q2) = Len(q) - 1
    /\ \A j \in Indices(q2) : q2[j] = IF j < i THEN q[j] ELSE q[j + 1]

\* q is a prefix of q2
IsPrefix(q, q2) ==
    /\ Len(q) <= Len(q2)
    /\ \A j \in Indices(q) : q2[j] = q[j]

\* positions of the pending Events whose timestamp is at or before `time`
DueAt(q, time) == {i \in Indices(q) : q[i].timestamp <= time}

IsScheduleCall(name) == name \in {"schedule_on", "schedule_off", "schedule_read"}

ActionOfCall(name) ==
    CASE name = "schedule_on" -> "On"
      [] name = "schedule_off" -> "Off"
      [] name = "schedule_read" -> "Read"

----------------------------------------------------------------------------
(* C1 *)

\* C1: one attempt_execution call on a Scheduler fires at most one Event and
\* conserves len(pending) + len(history): when it returns an Event, exactly
\* that Event leaves pending and exactly that Event is appended to history;
\* when it returns nothing both lists are unchanged.
C1_AttemptConserves ==
    [][(scheduler # Absent /\ op'.name = "attempt_execution") =>
        /\ Len(scheduler'.future_events) + Len(scheduler'.events)
             = Len(scheduler.future_events) + Len(scheduler.events)
        /\ IF ret'.val.some
           THEN /\ \E i \in Indices(scheduler.future_events) :
                      /\ scheduler.future_events[i] = ret'.val.val
                      /\ IsWithout(scheduler'.future_events,
                                   scheduler.future_events, i)
                /\ scheduler'.events = Append(scheduler.events, ret'.val.val)
           ELSE /\ scheduler'.future_events = scheduler.future_events
                /\ scheduler'.events = scheduler.events]_vars

\* an attempt_execution that fired one Event while others stayed pending and
\* others had fired before
C1_Witness ==
    /\ scheduler # Absent
    /\ op.name = "attempt_execution"
    /\ ret.val.some
    /\ Len(scheduler.future_events) >= 1
    /\ Len(scheduler.events) >= 2

----------------------------------------------------------------------------
(* C2 *)

\* C2: when pending Events are due at the query time, attempt_execution
\* fires the one at the lowest list position among the due ones, whatever
\* their timestamps, and the remaining pending Events keep their order.
C2_FirstInsertedFires ==
    [][(/\ scheduler # Absent
        /\ op'.name = "attempt_execution"
        /\ DueAt(scheduler.future_events, op'.time) # {}) =>
        LET due == DueAt(scheduler.future_events, op'.time)
            first == CHOOSE i \in due : \A j \in due : i <= j
        IN  /\ ret' = Returned(Some(scheduler.future_events[first]))
            /\ IsWithout(scheduler'.future_events,
                         scheduler.future_events, first)]_vars

\* an attempt_execution fired an Event although an Event scheduled after it,
\* still pending, was due too and has an earlier timestamp
C2_Witness ==
    /\ scheduler # Absent
    /\ op.name = "attempt_execution"
    /\ ret.val.some
    /\ \E i \in Indices(scheduler.future_events) :
          /\ scheduler.future_events[i].id > ret.val.val.id
          /\ scheduler.future_events[i].timestamp < ret.val.val.timestamp
          /\ scheduler.future_events[i].timestamp <= op.time
    /\ Len(scheduler.future_events) >= 2

----------------------------------------------------------------------------
(* C3 *)

\* every Event created so far is in exactly one of pending and history
C3_Partition ==
    /\ IdsOf(Pending) \cap IdsOf(History) = {}
    /\ IdsOf(Pending) \cup IdsOf(History) = 1..Sched.created
    /\ Len(Pending) + Len(History) = Sched.created

\* one step: history only grows at its end, by at most one Event; an Event
\* leaves pending only by being appended to history in the same step; an
\* Event of history is never pending again
C3_Step ==
    /\ IsPrefix(History, History')
    /\ Len(History') <= Len(History) + 1
    /\ \A i \in Indices(Pending) :
          \/ \E j \in Indices(Pending') : Pending'[j] = Pending[i]
          \/ /\ Len(History') = Len(History) + 1
             /\ History'[Len(History')] = Pending[i]
    /\ IdsOf(History) \cap IdsOf(Pending') = {}

\* C3: over any sequence of schedule_* and attempt_execution calls (made
\* directly or by a controller's poll) every Event is in exactly one of
\* pending and history, it moves from pending to history once and never
\* back, it leaves pending only by being fired, and history is append-only.
C3_PendingXorHistory == [](C3_Partition) /\ [][C3_Step]_vars

\* Events were fired in an order other than the order of scheduling, and
\* others are still pending
C3_Witness ==
    /\ scheduler # Absent
    /\ Len(History) >= 2
    /\ History[1].id > History[2].id
    /\ Len(Pending) >= 1

----------------------------------------------------------------------------
(* C4 *)

\* C4: the due check is non-strict and monotone in the query time: a pending
\* Event with timestamp T is due at t exactly when t >= T, so due at t1
\* implies due at every t2 >= t1; an attempt_execution(t) that returns an
\* Event returns one with timestamp <= t, and one that returns nothing
\* leaves only Events with timestamp > t pending.
C4_DueCheckNonStrictMonotone ==
    scheduler # Absent =>
        /\ \A i \in Indices(scheduler.future_events) :
              LET e == scheduler.future_events[i]
              IN  /\ \A t \in 0..(MaxSchedTime + 1) :
                        should_execute(e, t) <=> (t >= e.timestamp)
                  /\ \A t1, t2 \in 0..(MaxSchedTime + 1) :
                        (t1 <= t2 /\ should_execute(e, t1))
                            => should_execute(e, t2)
        /\ (op.name = "attempt_execution" /\ ret.val.some)
              => ret.val.val.timestamp <= op.time
        /\ (op.name = "attempt_execution" /\ ~ret.val.some)
              => \A i \in Indices(scheduler.future_events) :
                    scheduler.future_events[i].timestamp > op.time

\* an attempt_execution at exactly the timestamp of an Event fired it, while
\* an Event with a later timestamp stayed pending
C4_Witness ==
    /\ scheduler # Absent
    /\ op.name = "attempt_execution"
    /\ ret.val.some
    /\ ret.val.val.timestamp = op.time
    /\ \E i \in Indices(scheduler.future_events) :
          scheduler.future_events[i].timestamp > op.time

----------------------------------------------------------------------------
(* C5 *)

IsPollCall(name) == name \in {"attempt_execution", "poll"}

\* C5 as stated: an overdue pending Event fires at the first
\* attempt_execution whose time is >= its timestamp, whatever else is
\* pending; so after attempt_execution(t) no Event with timestamp <= t is
\* still pending.
C5_EveryDueEventFiresAtFirstPoll ==
    (scheduler # Absent /\ op.name = "attempt_execution") =>
        \A i \in Indices(scheduler.future_events) :
            scheduler.future_events[i].timestamp > op.time

\* a poll of the object under test fires the pending Event at position i
\* exactly when it is due and no Event before it in pending is due
C5_Step ==
    IsPollCall(op'.name) =>
        \A i \in Indices(Pending) :
            LET e == Pending[i]
                firedNow == /\ Len(History') = Len(History) + 1
                            /\ History'[Len(History')] = e
            IN  /\ firedNow <=>
                      /\ e.timestamp <= op'.time
                      /\ \A j \in 1..(i - 1) : Pending[j].timestamp > op'.time
                /\ (e.timestamp <= op'.time /\ ~firedNow) =>
                      /\ \E j \in Indices(Pending') : Pending'[j] = e
                      /\ \E j \in 1..(i - 1) :
                            /\ Len(History') = Len(History) + 1
                            /\ History'[Len(History')] = Pending[j]

\* no Event is in history twice
C5_FiredOnce ==
    \A i, j \in Indices(History) : History[i].id = History[j].id => i = j

\* C5 (amended): an overdue pending Event with timestamp T fires exactly
\* once, at the first poll with time >= T at which no Event scheduled before
\* it is due as well; a poll with time >= T that does not fire it fires an
\* Event scheduled before it and leaves it pending.
C5_DueEventFiresWhenFirstInLine == [](C5_FiredOnce) /\ [][C5_Step]_vars

\* an Event that was overdue at an earlier attempt_execution, but behind
\* another due Event, was fired by this one
C5_Witness ==
    /\ scheduler # Absent
    /\ op.name = "attempt_execution"
    /\ op.after # 0
    /\ op.fired # 0
    /\ op.fired > op.after
    /\ ret.val.some
    /\ ret.val.val.timestamp < op.time

----------------------------------------------------------------------------
(* C6 *)

\* C6: when a poll at instant t fired Event e and the same poll is repeated
\* at t, the repeat does not fire e again (e is in history once and is not
\* pending), and a Message or Event the repeat returns belongs to another
\* Event, fired by the repeat itself.
C6_RepeatedPollDoesNotRefire ==
    op.after # 0 =>
        /\ Cardinality({i \in Indices(History) : History[i].id = op.after}) = 1
        /\ op.after \notin IdsOf(Pending)
        /\ op.fired # op.after
        /\ ret.val.some =>
              /\ op.fired # 0
              /\ History[Len(History)].id = op.fired
              /\ History[Len(History)].id # op.after

\* a Threshold poll was repeated at the instant at which it had just fired
\* its Read, and the repeat returned no Message
C6_Witness ==
    /\ threshold # Absent
    /\ op.name = "poll"
    /\ op.after # 0
    /\ ret = Returned(None)
    /\ threshold.output.state.some

----------------------------------------------------------------------------
(* C7 *)

\* C7: when no pending Event is due at the instant of an attempt_execution
\* or of a controller's poll, the call returns nothing without panicking and
\* changes nothing: pending and history, the Input (no read), the Output (no
\* command) and the set of scheduled Events stay as they were.
C7_NothingDueNothingHappens ==
    [][(/\ IsPollCall(op'.name)
        /\ \A i \in Indices(Pending) : Pending[i].timestamp > op'.time) =>
        /\ ret' = Returned(None)
        /\ scheduler' = scheduler
        /\ threshold' = threshold
        /\ timed' = timed
        /\ bidirectional' = bidirectional
        /\ group' = group
        /\ output' = output]_vars

\* a Threshold poll before the first Read is due: no Message, the Input was
\* never read and the Output never commanded
C7_Witness ==
    /\ threshold # Absent
    /\ op.name = "poll"
    /\ ret = Returned(None)
    /\ Len(Pending) = 1
    /\ Pending[1].timestamp > op.time
    /\ threshold.input.reads = 0
    /\ threshold.output.calls = <<>>

----------------------------------------------------------------------------
(* C8 *)

\* C8: schedule_on / schedule_off / schedule_read append exactly one new
\* pending Event, of their action and at the given timestamp, at the end of
\* pending, whatever is pending already and whatever the timestamp; so two
\* equal requests are two pending Events, of which one attempt_execution
\* fires only one, and an Event is due at the next attempt_execution whose
\* time is at or after its timestamp.
C8_ScheduleAppends ==
    [][(scheduler # Absent) =>
        /\ IsScheduleCall(op'.name) =>
              /\ Len(scheduler'.future_events)
                    = Len(scheduler.future_events) + 1
              /\ IsPrefix(scheduler.future_events, scheduler'.future_events)
              /\ LET e == scheduler'.future_events[Len(scheduler'.future_events)]
                 IN  /\ e.action = ActionOfCall(op'.name)
                     /\ e.timestamp = op'.time
                     /\ e.value = None
                     /\ e.id \notin IdsOf(scheduler.future_events)
                                       \cup IdsOf(scheduler.events)
              /\ scheduler'.events = scheduler.events
        /\ (op'.name = "attempt_execution") =>
              \A i, j \in Indices(scheduler.future_events) :
                  (/\ i < j
                   /\ scheduler.future_events[i].action
                         = scheduler.future_events[j].action
                   /\ scheduler.future_events[i].timestamp
                         = scheduler.future_events[j].timestamp) =>
                      /\ scheduler.future_events[j].id
                            \in IdsOf(scheduler'.future_events)
                      /\ (/\ scheduler.future_events[i].timestamp <= op'.time
                          /\ \A k \in 1..(i - 1) :
                               scheduler.future_events[k].timestamp > op'.time)
                            => ret' = Returned(Some(scheduler.future_events[i]))]_vars

\* the same action was scheduled twice for the same timestamp; one of the
\* two Events has fired, the other is still pending, and the timestamp is
\* before the instant of an attempt_execution already made
C8_Witness ==
    /\ scheduler # Absent
    /\ IsScheduleCall(op.name)
    /\ \E i \in Indices(scheduler.events) :
          /\ scheduler.events[i].action = ActionOfCall(op.name)
          /\ scheduler.events[i].timestamp = op.time
    /\ LET e == scheduler.future_events[Len(scheduler.future_events)]
       IN  /\ e.action = ActionOfCall(op.name)
           /\ e.timestamp = op.time
    /\ \E i, j \in Indices(scheduler.future_events) :
          /\ i < j
          /\ scheduler.future_events[i].action = scheduler.future_events[j].action
          /\ scheduler.future_events[i].timestamp
                = scheduler.future_events[j].timestamp

----------------------------------------------------------------------------
(* C9 *)

\* the finite readings and their values in half units
NumericReadings == {"0.0", "0.5", "1.0", "1.5", "2.0"}
HalfUnits(str) ==
    CASE str = "0.0" -> 0 [] str = "0.5" -> 1 [] str = "1.0" -> 2
      [] str = "1.5" -> 3 [] str = "2.0" -> 4

\* the sample is strictly greater than the threshold
StrictlyAbove(str, thr) ==
    str \in NumericReadings /\ ~thr.nan /\ HalfUnits(str) > thr.v

\* C9: after a Threshold poll that fired a Read and returned, the Output is
\* active exactly when (sample strictly above threshold) XOR inverted, and
\* that is the last value the device was commanded with; a sample equal to
\* the threshold counts as below.
C9_ThresholdDecision ==
    (threshold # Absent /\ op.name = "poll" /\ ret.val.some) =>
        LET sample == threshold.input.state.val
            above == StrictlyAbove(sample, threshold.threshold)
            active == (above /\ ~threshold.inverted)
                         \/ (~above /\ threshold.inverted)
        IN  /\ threshold.input.state.some
            /\ threshold.output.state = Some(active)
            /\ threshold.output.calls # <<>>
            /\ threshold.output.calls[Len(threshold.output.calls)] = active

\* an inverted Threshold sampled exactly its threshold and activated its
\* Output
C9_Witness ==
    /\ threshold # Absent
    /\ op.name = "poll"
    /\ ret.val.some
    /\ threshold.inverted
    /\ threshold.input.state = Some("1.0")
    /\ threshold.threshold = F32(2)
    /\ threshold.output.state = Some(TRUE)

----------------------------------------------------------------------------
(* C10 *)

\* C10: a Threshold poll(now) that fires and returns a Message takes the
\* fired Read out of pending and arms exactly one new Event, a Read at
\* now + interval, at the end of pending, whatever the sample was.
C10_ThresholdRearmsAtNowPlusInterval ==
    [][(threshold # Absent /\ op'.name = "poll" /\ ret'.val.some) =>
        LET before == threshold.schedule.future_events
            after == threshold'.schedule.future_events
            new == after[Len(after)]
        IN  /\ Len(after) = Len(before)
            /\ Len(after) >= 1
            /\ \E i \in Indices(before) :
                  IsWithout(SubSeq(after, 1, Len(after) - 1), before, i)
            /\ new.action = "Read"
            /\ new.timestamp = op'.time + threshold.interval
            /\ new.value = None
            /\ new.id \notin IdsOf(before) \cup IdsOf(threshold.schedule.events)]_vars

\* a late poll: the Read fired after its timestamp and the next Read is
\* armed interval after the poll instant, not interval after that timestamp
C10_Witness ==
    /\ threshold # Absent
    /\ op.name = "poll"
    /\ ret.val.some
    /\ threshold.interval > 0
    /\ LET fired == threshold.schedule.events[Len(threshold.schedule.events)]
           armed == threshold.schedule.future_events[
                        Len(threshold.schedule.future_events)]
       IN  /\ fired.timestamp < op.time
           /\ armed.timestamp = op.time + threshold.interval
           /\ armed.timestamp # fired.timestamp + threshold.interval

----------------------------------------------------------------------------
(* C11 *)

\* C11: a Threshold poll that fires and returns, returns one Message whose
\* content is "Above Threshold" when the sample is strictly above the
\* threshold and "Below Threshold" otherwise, whatever the inverted flag,
\* and whose read_state is the String sampled in that poll.
C11_ThresholdMessage ==
    (threshold # Absent /\ op.name = "poll" /\ ret.val.some) =>
        LET msg == ret.val.val
            sample == threshold.input.state.val
        IN  /\ op.fired # 0
            /\ threshold.input.state.some
            /\ threshold.input.reads >= 1
            /\ msg.read_state = Some(sample)
            /\ msg.content =
                  IF StrictlyAbove(sample, threshold.threshold)
                  THEN "Above Threshold" ELSE "Below Threshold"

\* an inverted Threshold sampled a value above its threshold: the Output
\* was deactivated and the Message says "Above Threshold" with the sample
C11_Witness ==
    /\ threshold # Absent
    /\ op.name = "poll"
    /\ ret.val.some
    /\ threshold.inverted
    /\ threshold.output.state = Some(FALSE)
    /\ ret.val.val.content = "Above Threshold"
    /\ ret.val.val.read_state = Some("1.5")

----------------------------------------------------------------------------
(* C12 *)

\* the zone of a sample for threshold thr and tolerance tol (half units);
\* a reading that is not a finite number is in neither outer zone
ZoneOf(str, thr, tol) ==
    IF str \in NumericReadings /\ HalfUnits(str) > thr.v + tol.v THEN "above"
    ELSE IF str \in NumericReadings /\ HalfUnits(str) < thr.v - tol.v THEN "below"
    ELSE "within"

\* C12: after a BidirectionalThreshold poll that fired a Read and returned:
\* sample > threshold + tolerance leaves decrease = true, increase = false;
\* sample < threshold - tolerance leaves increase = true, decrease = false;
\* otherwise, also at exactly threshold + tolerance or threshold - tolerance,
\* both outputs are false.
C12_BidirectionalDecision ==
    (bidirectional # Absent /\ op.name = "poll" /\ ret.val.some) =>
        LET zone == ZoneOf(bidirectional.input.state.val,
                           bidirectional.threshold, bidirectional.tolerance)
        IN  /\ bidirectional.input.state.some
            /\ bidirectional.increase_output.state = Some(zone = "below")
            /\ bidirectional.decrease_output.state = Some(zone = "above")

\* a sample exactly at threshold + tolerance, with a tolerance that is not
\* zero, left both outputs false
C12_Witness ==
    /\ bidirectional # Absent
    /\ op.name = "poll"
    /\ ret.val.some
    /\ bidirectional.tolerance = F32(1)
    /\ bidirectional.threshold = F32(2)
    /\ bidirectional.input.state = Some("1.5")
    /\ bidirectional.increase_output.state = Some(FALSE)
    /\ bidirectional.decrease_output.state = Some(FALSE)

----------------------------------------------------------------------------
(* C13 *)

\* the states the two outputs can be in before a poll
PriorOutputStates ==
    {<<None, None>>, <<Some(TRUE), Some(FALSE)>>,
     <<Some(FALSE), Some(TRUE)>>, <<Some(FALSE), Some(FALSE)>>}

\* the controller c with its outputs in the prior states p
WithPriorOutputs(c, p) ==
    [c EXCEPT !.increase_output.state = p[1], !.decrease_output.state = p[2]]

\* C13: the BidirectionalThreshold is memoryless: controllers that differ
\* only in the prior states of their outputs and that are polled at the same
\* instant with the same sample end with the same output states and return
\* the same Message.
C13_BidirectionalMemoryless ==
    bidirectional # Absent =>
        \A p \in PriorOutputStates, time \in Times, reading \in Readings :
            LET one == BidirectionalThreshold_poll(bidirectional, time, reading)
                two == BidirectionalThreshold_poll(
                           WithPriorOutputs(bidirectional, p), time, reading)
            IN  /\ one.ret = two.ret
                /\ one.ret.val.some =>
                      /\ one.self.increase_output.state
                            = two.self.increase_output.state
                      /\ one.self.decrease_output.state
                            = two.self.decrease_output.state

\* a controller whose increase output is active and whose next Read is
\* pending: the prior state that a within-tolerance sample must override;
\* an earlier within-tolerance Read had found both outputs unset
C13_Witness ==
    /\ bidirectional # Absent
    /\ bidirectional.increase_output.state = Some(TRUE)
    /\ bidirectional.increase_output.calls = <<FALSE, TRUE>>
    /\ Len(bidirectional.schedule.future_events) = 1
    /\ bidirectional.schedule.created < MaxControllerEvents

----------------------------------------------------------------------------
(* C14 *)

\* C14: a BidirectionalThreshold poll(now) that fires and returns takes the
\* fired Read out of pending, arms exactly one new Event, a Read at
\* now + interval, and returns one Message whose content names the zone of
\* the sample ("Above Threshold", "Below Threshold", "Within Tolerance") and
\* whose read_state is the String sampled in that poll.
C14_BidirectionalRearmsAndReports ==
    [][(bidirectional # Absent /\ op'.name = "poll" /\ ret'.val.some) =>
        LET before == bidirectional.schedule.future_events
            after == bidirectional'.schedule.future_events
            new == after[Len(after)]
            msg == ret'.val.val
            sample == bidirectional'.input.state.val
            zone == ZoneOf(sample, bidirectional.threshold,
                           bidirectional.tolerance)
        IN  /\ Len(after) = Len(before)
            /\ Len(after) >= 1
            /\ \E i \in Indices(before) :
                  IsWithout(SubSeq(after, 1, Len(after) - 1), before, i)
            /\ new.action = "Read"
            /\ new.timestamp = op'.time + bidirectional.interval
            /\ new.value = None
            /\ new.id \notin IdsOf(before)
                                \cup IdsOf(bidirectional.schedule.events)
            /\ bidirectional'.input.reads = bidirectional.input.reads + 1
            /\ msg.read_state = Some(sample)
            /\ msg.content = CASE zone = "above" -> "Above Threshold"
                               [] zone = "below" -> "Below Threshold"
                               [] OTHER -> "Within Tolerance"]_vars

\* a late poll of a BidirectionalThreshold sampled a value inside the
\* tolerance band: the next Read is armed interval after the poll instant
C14_Witness ==
    /\ bidirectional # Absent
    /\ op.name = "poll"
    /\ ret.val.some
    /\ ret.val.val.content = "Within Tolerance"
    /\ bidirectional.interval > 0
    /\ LET fired == bidirectional.schedule.events[
                        Len(bidirectional.schedule.events)]
           armed == bidirectional.schedule.future_events[
                        Len(bidirectional.schedule.future_events)]
       IN  /\ fired.timestamp < op.time
           /\ armed.timestamp = op.time + bidirectional.interval

----------------------------------------------------------------------------
(* C15 *)

\* the first instant strictly after `time` whose time-of-day is start_time
NextOccurrence(time, start_time) ==
    CHOOSE u \in (time + 1)..(time + DayLen) : u % DayLen = start_time

\* the first instant of the calendar day of `time`
DayStart(time) == time - (time % DayLen)

\* C15: the On event a TimedOutput arms for reference instant t (by
\* schedule_first(t)) is at the next occurrence of start_time: on the day of
\* t when the time-of-day of t is strictly before start_time, on the
\* following day otherwise, also when t is exactly at start_time or inside
\* the window start_time .. start_time + duration.
C15_OnArmedAtNextOccurrence ==
    (timed # Absent /\ op.name = "schedule_first") =>
        /\ Len(timed.scheduler.future_events) = 1
        /\ timed.scheduler.events = <<>>
        /\ timed.output.state = None
        /\ LET on == timed.scheduler.future_events[1]
           IN  /\ on.action = "On"
               /\ on.timestamp = NextOccurrence(op.time, timed.start_time)
               /\ on.timestamp > op.time
               /\ on.timestamp % DayLen = timed.start_time
               /\ on.timestamp =
                     IF op.time % DayLen < timed.start_time
                     THEN DayStart(op.time) + timed.start_time
                     ELSE DayStart(op.time) + DayLen + timed.start_time

\* a TimedOutput first scheduled inside today's window: its On is armed for
\* tomorrow
C15_Witness ==
    /\ timed # Absent
    /\ op.name = "schedule_first"
    /\ op.time % DayLen > timed.start_time
    /\ op.time % DayLen < timed.start_time + timed.duration
    /\ timed.scheduler.future_events[1].timestamp
          = DayStart(op.time) + DayLen + timed.start_time

----------------------------------------------------------------------------
(* C16 *)

\* the Event the last call fired
LastFired == History[Len(History)]

\* C16: when a TimedOutput poll at instant t fires an On event, the Output
\* is activated, the Message "Activated" is returned and exactly one Event
\* is armed, an Off at (day of t at time-of-day start_time) + duration,
\* which may lie on a later calendar day.
C16_OnFiringArmsOff ==
    (timed # Absent /\ op.name = "poll" /\ op.fired # 0
        /\ LastFired.action = "On") =>
        /\ timed.output.state = Some(TRUE)
        /\ timed.output.calls # <<>>
        /\ timed.output.calls[Len(timed.output.calls)] = TRUE
        /\ ret.val.some
        /\ ret.val.val.content = "Activated"
        /\ Len(timed.scheduler.future_events) = 1
        /\ timed.scheduler.created = LastFired.id + 1
        /\ LET off == timed.scheduler.future_events[1]
           IN  /\ off.action = "Off"
               /\ off.id = timed.scheduler.created
               /\ off.timestamp
                     = DayStart(op.time) + timed.start_time + timed.duration

\* an On fired and the Off it armed lies on the next calendar day
C16_Witness ==
    /\ timed # Absent
    /\ op.name = "poll"
    /\ op.fired # 0
    /\ LastFired.action = "On"
    /\ timed.duration < DayLen
    /\ timed.scheduler.future_events[1].action = "Off"
    /\ DayStart(timed.scheduler.future_events[1].timestamp)
          = DayStart(op.time) + DayLen

----------------------------------------------------------------------------
(* C17 *)

\* C17: when a TimedOutput poll at instant t fires an Off event, the Output
\* is deactivated, the Message "Deactivated" is returned and exactly one
\* Event is armed, an On at the next occurrence of start_time strictly
\* after t.
C17_OffFiringArmsNextOn ==
    (timed # Absent /\ op.name = "poll" /\ op.fired # 0
        /\ LastFired.action = "Off") =>
        /\ timed.output.state = Some(FALSE)
        /\ timed.output.calls # <<>>
        /\ timed.output.calls[Len(timed.output.calls)] = FALSE
        /\ ret.val.some
        /\ ret.val.val.content = "Deactivated"
        /\ Len(timed.scheduler.future_events) = 1
        /\ timed.scheduler.created = LastFired.id + 1
        /\ LET on == timed.scheduler.future_events[1]
           IN  /\ on.action = "On"
               /\ on.id = timed.scheduler.created
               /\ on.timestamp > op.time
               /\ on.timestamp = NextOccurrence(op.time, timed.start_time)

\* an Off fired at a time-of-day before start_time: the next On is armed
\* for the same calendar day as the poll
C17_Witness ==
    /\ timed # Absent
    /\ op.name = "poll"
    /\ op.fired # 0
    /\ LastFired.action = "Off"
    /\ op.time % DayLen < timed.start_time
    /\ timed.scheduler.future_events[1].timestamp
          = DayStart(op.time) + timed.start_time

----------------------------------------------------------------------------
(* C18 *)

\* the first Event the controller ever armed
FirstArmed ==
    LET all == History \o Pending
    IN  all[CHOOSE i \in DOMAIN all : all[i].id = 1]

\* the controller was first scheduled before start_time on day 0
ScheduledBeforeStart == FirstArmed.timestamp = timed.start_time

\* the days the polls of a run can reach
Days == 0..(MaxTimedTime \div DayLen)

\* instant t is inside the window of some day: [S, S + D) on that day
InWindow(t) ==
    \E k \in Days :
        /\ k * DayLen + timed.start_time <= t
        /\ t < k * DayLen + timed.start_time + timed.duration

\* instant t is the end S + D of the window of some day
AtWindowEnd(t) ==
    \E k \in Days : t = k * DayLen + timed.start_time + timed.duration

\* what the claim says of the state after the poll at op.time
WindowFollowed ==
    /\ op.time < timed.start_time =>
          /\ timed.output.state # Some(TRUE)
          /\ \A i \in DOMAIN timed.output.calls : ~timed.output.calls[i]
    /\ InWindow(op.time) => timed.output.state = Some(TRUE)
    /\ AtWindowEnd(op.time) => timed.output.state = Some(FALSE)

\* C18 as stated: for every duration below one day, a TimedOutput first
\* scheduled before start_time and polled at every step is never commanded
\* active before S, is active after every poll in [S, S + D) and inactive
\* after the poll at S + D. Violated for D = 0: the poll at S = S + D fires
\* the On and leaves the Output active, the Off armed at S fires one step
\* later.
C18_WindowFollowedAnyDuration ==
    (timed # Absent /\ op.name = "poll" /\ ScheduledBeforeStart
        /\ timed.duration < DayLen) => WindowFollowed

\* C18, amended: the same for 0 < D < one day.
C18_WindowFollowed ==
    (timed # Absent /\ op.name = "poll" /\ ScheduledBeforeStart
        /\ 0 < timed.duration /\ timed.duration < DayLen) => WindowFollowed

\* the poll at S + D of a window that ran over midnight has just switched
\* the Output off, after the polls inside the window held it on
C18_Witness ==
    /\ timed # Absent
    /\ op.name = "poll"
    /\ ScheduledBeforeStart
    /\ 0 < timed.duration
    /\ timed.duration < DayLen
    /\ op.time = timed.start_time + timed.duration
    /\ op.time >= DayLen
    /\ op.fired # 0
    /\ timed.output.calls = <<FALSE, TRUE, FALSE>>
    /\ timed.output.state = Some(FALSE)

----------------------------------------------------------------------------
(* C19 *)

\* a step is a call of ControllerGroup::poll
IsGroupPollStep == group # Absent /\ op'.name = "group_poll"

\* what the i-th controller of the group does when polled on its own at the
\* instant and with the reading of the step's group poll
OwnPoll(i) == Controller_poll(group.controllers[i], op'.time, op'.readings[i])

\* the positions of the controllers whose Scheduler fired an Event in the
\* step
FiredInStep ==
    {i \in DOMAIN group.controllers :
        FiredId(Controller_scheduler(group.controllers[i]),
                Controller_scheduler(group'.controllers[i])) # 0}

\* C19: a ControllerGroup poll that returns gives the Messages of exactly
\* the controllers that fired in that call, one each, in the order the
\* controllers were added; controllers that did not fire contribute
\* nothing, and the list is empty when none fired.
C19_GroupMessagesInInsertionOrder ==
    [][(IsGroupPollStep /\ ~ret'.panic) =>
        LET msgs == ret'.val
        IN  /\ Len(msgs) = Cardinality(FiredInStep)
            /\ \E f \in [1..Len(msgs) -> FiredInStep] :
                  /\ \A a, b \in 1..Len(msgs) : a < b => f[a] < f[b]
                  /\ \A j \in 1..Len(msgs) :
                        /\ msgs[j] = OwnPoll(f[j]).ret.val.val
                        /\ msgs[j].name = ToString(f[j])
                        /\ msgs[j].name = NameOrDefault(group.controllers[f[j]].c)
            /\ FiredInStep = {} => msgs = <<>>]_vars

\* a group of three polled when the second and third controller are due
\* and the first is not: two Messages, of the second then the third
C19_Witness ==
    /\ group # Absent
    /\ op.name = "group_poll"
    /\ ~ret.panic
    /\ Len(group.controllers) = 3
    /\ op.fired[1] = 0
    /\ op.fired[2] # 0
    /\ op.fired[3] # 0
    /\ Len(ret.val) = 2
    /\ ret.val[1].name = "2"
    /\ ret.val[2].name = "3"

----------------------------------------------------------------------------
(* C20 *)

\* the positions of the controllers whose own poll panics in the step
FailingInStep == {i \in DOMAIN group.controllers : OwnPoll(i).ret.panic}

\* C20: when the k-th controller is the first whose poll fails fatally in a
\* group poll, the call returns no Message list, the controllers after k
\* are as they were before the call, and the controllers up to k are as
\* their own polls left them (fired Events, Output commands and re-armed
\* Events included).
C20_GroupPollNotIsolated ==
    [][(IsGroupPollStep /\ FailingInStep # {}) =>
        LET k == CHOOSE i \in FailingInStep : \A j \in FailingInStep : i <= j
        IN  /\ ret'.panic
            /\ ret'.val = None
            /\ Len(group'.controllers) = Len(group.controllers)
            /\ \A j \in DOMAIN group.controllers :
                  /\ j > k => group'.controllers[j] = group.controllers[j]
                  /\ j <= k => group'.controllers[j] = OwnPoll(j).self]_vars

\* a group of three whose second controller failed on a malformed reading:
\* the first has fired, commanded its Output and re-armed, the third still
\* holds its due Event and has commanded nothing
C20_Witness ==
    /\ group # Absent
    /\ op.name = "group_poll"
    /\ ret.panic
    /\ ret.val = None
    /\ Len(group.controllers) = 3
    /\ op.fired[1] # 0
    /\ Controller_scheduler(group.controllers[1]).future_events # <<>>
    /\ group.controllers[1].kind = "TimedOutput"
    /\ group.controllers[1].c.output.calls # <<>>
    /\ op.fired[2] # 0
    /\ op.readings[2] = "abc"
    /\ Controller_scheduler(group.controllers[2]).future_events = <<>>
    /\ op.fired[3] = 0
    /\ group.controllers[3].kind = "Threshold"
    /\ group.controllers[3].c.output.calls = <<>>
    /\ \E i \in DOMAIN Controller_scheduler(group.controllers[3]).future_events :
          Controller_scheduler(group.controllers[3]).future_events[i].timestamp
              <= op.time

----------------------------------------------------------------------------
(* C21 *)

\* readings that are not the text of a number
MalformedReadings == {"abc", ""}

\* the step is a poll of the Threshold or the BidirectionalThreshold under
\* test that fired a Read and sampled a malformed reading
MalformedReadStep ==
    /\ op'.name = "poll"
    /\ op'.fired # 0
    /\ \/ /\ threshold # Absent
          /\ threshold'.input.reads = threshold.input.reads + 1
          /\ threshold'.input.state.val \in MalformedReadings
       \/ /\ bidirectional # Absent
          /\ bidirectional'.input.reads = bidirectional.input.reads + 1
          /\ bidirectional'.input.state.val \in MalformedReadings

\* C21: a malformed reading sampled during a due Read of a Threshold or a
\* BidirectionalThreshold is fatal: the poll aborts, returns no Message and
\* commands no Output.
C21_MalformedReadingIsFatal ==
    [][MalformedReadStep =>
        /\ ret'.panic
        /\ ret'.val = None
        /\ threshold # Absent => threshold'.output = threshold.output
        /\ bidirectional # Absent =>
              /\ bidirectional'.increase_output = bidirectional.increase_output
              /\ bidirectional'.decrease_output = bidirectional.decrease_output
      ]_vars

\* a Threshold whose second Read sampled "abc": the poll failed and the
\* Output still holds the single command of the first Read
C21_Witness ==
    /\ threshold # Absent
    /\ op.name = "poll"
    /\ op.fired # 0
    /\ ret.panic
    /\ threshold.input.state = Some("abc")
    /\ threshold.input.reads = 2
    /\ Len(History) = 2
    /\ Len(threshold.output.calls) = 1

----------------------------------------------------------------------------
(* C22 *)

\* the Actions a controller kind does not handle
Unhandled(action) ==
    IF timed # Absent THEN action = "Read" ELSE action \in {"On", "Off"}

\* C22: for every controller kind, a poll that fires an Event whose Action
\* the kind does not handle does not return normally.  Violated by
\* BidirectionalThreshold, whose poll consumes the Event and returns None.
C22_UnhandledActionIsFatal ==
    (op.name = "poll" /\ op.fired # 0 /\ Unhandled(LastFired.action)) =>
        ret.panic

----------------------------------------------------------------------------
(* C23 *)

\* the Threshold or BidirectionalThreshold under test is there
HasReader == threshold # Absent \/ bidirectional # Absent

\* the Threshold or BidirectionalThreshold under test
Reader == IF threshold # Absent THEN threshold ELSE bidirectional

\* the Outputs of the controller have never been commanded
OutputsUnset(c) ==
    IF threshold # Absent
    THEN c.output = Output_new
    ELSE c.increase_output = Output_new /\ c.decrease_output = Output_new

\* schedule_next(t) leaves one pending Read, at t + interval
FirstReadArmed ==
    (HasReader /\ op.name = "schedule_next") =>
        /\ History = <<>>
        /\ Len(Pending) = 1
        /\ Pending[1].action = "Read"
        /\ Pending[1].timestamp = op.time + Reader.interval
        /\ OutputsUnset(Reader)
        /\ Reader.input.reads = 0

\* a poll made while the first Read is pending: before t + interval it
\* returns no Message and leaves the controller as it was, the Outputs
\* unset; at or after t + interval it performs the first Read
FirstReadStep ==
    (HasReader /\ op'.name = "poll" /\ History = <<>>) =>
        IF op'.time < Pending[1].timestamp
        THEN /\ ret' = Returned(None)
             /\ threshold' = threshold
             /\ bidirectional' = bidirectional
             /\ OutputsUnset(Reader)
        ELSE /\ op'.fired = Pending[1].id
             /\ Pending[1].action = "Read"
             /\ Reader'.input.reads = 1

\* a poll at the instant t given to schedule_next, made while the first
\* Read is pending, returns no Message and leaves the Outputs unset
PollAtScheduleInstantStep ==
    (HasReader /\ op'.name = "poll" /\ History = <<>>
        /\ op'.time = Pending[1].timestamp - Reader.interval) =>
        /\ ret' = Returned(None)
        /\ OutputsUnset(Reader')

\* C23 as stated: schedule_next(t) arms the first Read at t + interval;
\* every poll before t + interval, the poll at t itself included, returns
\* no Message and leaves the Outputs unset; the first poll at or after
\* t + interval performs the first Read.  Violated for interval = 0, where
\* the poll at t performs the first Read.
C23_FirstReadNeverAtScheduleInstant ==
    /\ []FirstReadArmed
    /\ [][FirstReadStep /\ PollAtScheduleInstantStep]_vars

\* C23, amended: the same without the clause on the poll at t, which holds
\* exactly when interval > 0.
C23_FirstReadAtSchedulePlusInterval ==
    /\ []FirstReadArmed
    /\ [][FirstReadStep
          /\ ((HasReader /\ Reader.interval > 0) =>
                 PollAtScheduleInstantStep)]_vars

\* a BidirectionalThreshold with a positive interval whose first Read was
\* performed by a poll after t + interval
C23_Witness ==
    /\ bidirectional # Absent
    /\ op.name = "poll"
    /\ bidirectional.interval > 0
    /\ op.fired = 1
    /\ Len(History) = 1
    /\ op.time > History[1].timestamp
    /\ bidirectional.input.reads = 1
    /\ bidirectional.increase_output.state # None

----------------------------------------------------------------------------
(* C24 *)

\* C24: the state an Output reports is unset (neither true nor false)
\* until the first command and afterwards the last commanded boolean; the
\* device callback has been invoked once per activate()/deactivate() call,
\* in call order, with true/false respectively, also for a command equal to
\* the current state.
C24_OutputReportsLastCommand ==
    output # Absent =>
        /\ output.calls = op.commands
        /\ op.commands = <<>> =>
              /\ Output_get_state(output) = None
              /\ Output_get_state(output) # Some(TRUE)
              /\ Output_get_state(output) # Some(FALSE)
        /\ op.commands # <<>> =>
              Output_get_state(output) = Some(op.commands[Len(op.commands)])

\* an Output activated twice in a row and then deactivated twice in a row:
\* the callback was invoked four times
C24_Witness ==
    /\ output # Absent
    /\ op.commands = <<TRUE, TRUE, FALSE, FALSE>>
    /\ output.calls = <<TRUE, TRUE, FALSE, FALSE>>
    /\ output.state = Some(FALSE)

----------------------------------------------------------------------------
(* C25 *)

\* C25: a TimedOutput polled at every time step fires an On event at
\* time-of-day start_time on every calendar day from the day its first On
\* was armed for, whatever the duration.  Violated for durations of one day
\* or more: the Off armed at start_time + duration is still pending at the
\* next day's start_time and no On is.
C25_OnFiresEveryDay ==
    (timed # Absent /\ op.name = "poll"
        /\ op.time % DayLen = timed.start_time
        /\ op.time >= FirstArmed.timestamp) =>
        /\ op.fired # 0
        /\ LastFired.action = "On"

----------------------------------------------------------------------------
(* C26 *)

\* C26: the Message a firing poll(now) of a controller returns carries the
\* poll instant now as its timestamp, also when the fired Event was
\* scheduled for an earlier instant.  Violated by BidirectionalThreshold,
\* whose Message carries the instant the fired Event was scheduled for.
C26_MessageTimestampIsPollInstant ==
    (op.name = "poll" /\ ~ret.panic /\ ret.val.some) =>
        ret.val.val.timestamp = op.time

----------------------------------------------------------------------------
(* C27 *)

\* the fields of a Message
MessageFields == {"name", "content", "timestamp", "read_state"}

\* C27 as stated: a controller's poll returns a Message if and only if it
\* fired an Event of its Scheduler.  Violated by a poll that fires a Read
\* and fails on a malformed reading: an Event was fired, no Message is
\* returned.
C27_MessageIffFired ==
    op.name = "poll" => (ret.val.some <=> op.fired # 0)

\* C27, amended: a controller's poll returns a Message if and only if it
\* fired an Event of its Scheduler and did not fail fatally; a poll that
\* fails has fired an Event and returns nothing; a poll returns at most one
\* Message.
C27_MessageIffFiredAndReturned ==
    op.name = "poll" =>
        /\ ret.val.some <=> (op.fired # 0 /\ ~ret.panic)
        /\ ret.panic => (op.fired # 0 /\ ret.val = None)
        /\ ret.val.some => DOMAIN ret.val.val = MessageFields

\* a TimedOutput poll that fired its Off and returned the one Message
C27_Witness ==
    /\ timed # Absent
    /\ op.name = "poll"
    /\ op.fired # 0
    /\ LastFired.action = "Off"
    /\ ret.val.some
    /\ ret.val.val.content = "Deactivated"

----------------------------------------------------------------------------
(* C28 *)

\* the states <<increase, decrease>> a Read in the zone leaves the outputs in
StatesOfZone(zone) ==
    CASE zone = "above" -> <<Some(FALSE), Some(TRUE)>>
      [] zone = "below" -> <<Some(TRUE), Some(FALSE)>>
      [] OTHER -> <<Some(FALSE), Some(FALSE)>>

\* o2 is o after exactly one more invocation of the device callback
OneMoreCall(o, o2) ==
    /\ Len(o2.calls) = Len(o.calls) + 1
    /\ SubSeq(o2.calls, 1, Len(o.calls)) = o.calls
    /\ o2.state = Some(o2.calls[Len(o2.calls)])

\* C28: every BidirectionalThreshold poll that fires and returns invokes the
\* callback of each of the two outputs exactly once; when the sample lands
\* in the zone the outputs already reflect, both callbacks are invoked again
\* with the values of the previous command and the output states do not
\* change.
C28_BidirectionalRepeatsCommands ==
    [][(bidirectional # Absent /\ op'.name = "poll" /\ ret'.val.some) =>
        LET inc  == bidirectional.increase_output
            dec  == bidirectional.decrease_output
            inc2 == bidirectional'.increase_output
            dec2 == bidirectional'.decrease_output
            zone == ZoneOf(bidirectional'.input.state.val,
                           bidirectional.threshold, bidirectional.tolerance)
        IN  /\ OneMoreCall(inc, inc2)
            /\ OneMoreCall(dec, dec2)
            /\ StatesOfZone(zone) = <<inc.state, dec.state>> =>
                  /\ inc2.state = inc.state
                  /\ dec2.state = dec.state
                  /\ inc2.calls = Append(inc.calls, inc.calls[Len(inc.calls)])
                  /\ dec2.calls = Append(dec.calls, dec.calls[Len(dec.calls)])
      ]_vars

\* two consecutive Reads below the band: the increase callback was invoked
\* with true twice and the decrease callback with false twice
C28_Witness ==
    /\ bidirectional # Absent
    /\ op.name = "poll"
    /\ ret.val.some
    /\ Len(History) = 2
    /\ bidirectional.increase_output.calls = <<TRUE, TRUE>>
    /\ bidirectional.decrease_output.calls = <<FALSE, FALSE>>
    /\ bidirectional.increase_output.state = Some(TRUE)

----------------------------------------------------------------------------
(* C29 *)

\* a controller is under test
HasController == HasReader \/ timed # Absent

\* a poll of a controller that does not fail keeps the number of pending
\* Events: it changes nothing when it fires nothing, and when it fires it
\* takes one Event out and appends exactly one newly created Event; no poll
\* makes the pending list longer
PendingCountStep ==
    (HasController /\ op'.name = "poll") =>
        /\ Len(Pending') <= Len(Pending)
        /\ ~ret'.panic =>
              /\ Len(Pending') = Len(Pending)
              /\ op'.fired = 0 => (Pending' = Pending /\ History' = History)
              /\ op'.fired # 0 =>
                    /\ \E i \in Indices(Pending) :
                          /\ Pending[i].id = op'.fired
                          /\ IsWithout(SubSeq(Pending', 1, Len(Pending') - 1),
                                       Pending, i)
                    /\ Pending'[Len(Pending')].id
                          \notin IdsOf(Pending) \cup IdsOf(History)

\* C29: the number of pending Events of a controller is preserved by every
\* poll that does not fail fatally, and no poll makes it grow; a controller
\* that was scheduled once has one pending Event when scheduled, at most one
\* in every reachable state, and exactly one after every poll made while it
\* had one, unless that poll failed.
C29_OnePendingEvent ==
    /\ []((HasController /\ op.name \in {"schedule_next", "schedule_first"})
             => Len(Pending) = 1)
    /\ [](HasController => Len(Pending) <= 1)
    /\ [][PendingCountStep]_vars

\* a TimedOutput after its third firing poll: three Events in the history,
\* one pending
C29_Witness ==
    /\ timed # Absent
    /\ op.name = "poll"
    /\ op.fired # 0
    /\ Len(History) = 3
    /\ Len(Pending) = 1
    /\ Pending[1].action = "Off"

----------------------------------------------------------------------------
(* C30 *)

\* the fired Events that no returned Message stands for
Unreported == Len(History) - op.messages

\* no operation removes or reorders an entry of the history; a schedule_*
\* call leaves it alone; a poll (attempt_execution for a bare Scheduler)
\* adds one entry when a pending Event is due and none otherwise
HistoryStep ==
    /\ IsPrefix(History, History')
    /\ ~IsPollCall(op'.name) => History' = History
    /\ IsPollCall(op'.name) =>
          Len(History') = Len(History)
              + (IF DueAt(Pending, op'.time) # {} THEN 1 ELSE 0)

\* a poll of a controller that returns a Message has fired an Event; one
\* that fires an Event and returns no Message leaves one more fired Event
\* unreported
UnreportedStep ==
    (HasController /\ op'.name = "poll") =>
        Unreported' = Unreported
            + (IF op'.fired # 0 /\ (ret'.panic \/ ~ret'.val.some)
               THEN 1 ELSE 0)

\* C30 (as stated): the fired history is never pruned or reordered, grows
\* by exactly one on every firing poll, and its length equals the number of
\* Messages the controller has returned so far.
C30_HistoryLengthIsMessageCount ==
    /\ [](HasController => Len(History) = op.messages)
    /\ [][HistoryStep]_vars

\* C30 (amended): the fired history is never pruned or reordered and grows
\* by exactly one on every firing poll; its length is never less than the
\* number of Messages the controller has returned so far, and exceeds it by
\* the number of firing polls that returned no Message.
C30_HistoryNeverPruned ==
    /\ [](HasController => Len(History) >= op.messages)
    /\ [][HistoryStep /\ UnreportedStep]_vars

\* a Threshold after a poll that returned a Message and a poll that failed
\* on a malformed reading: two fired Events, one Message
C30_Witness ==
    /\ threshold # Absent
    /\ op.name = "poll"
    /\ ret.panic
    /\ Len(History) = 2
    /\ op.messages = 1

----------------------------------------------------------------------------
(* C31 *)

\* the Threshold or BidirectionalThreshold under test has fired a Read that
\* no returned Message stands for: a poll of it has failed
HasFailed == HasReader /\ Unreported > 0

\* a poll that samples a malformed reading leaves the due Read as the last
\* entry of the history, no pending Event, and the Outputs as they were
FailureStep ==
    MalformedReadStep =>
        /\ Pending' = <<>>
        /\ Len(Pending) = 1
        /\ History' = Append(History, Pending[1])
        /\ Pending[1].action = "Read"
        /\ threshold # Absent => threshold'.output = threshold.output
        /\ bidirectional # Absent =>
              /\ bidirectional'.increase_output = bidirectional.increase_output
              /\ bidirectional'.decrease_output = bidirectional.decrease_output

\* every poll of a controller that has failed returns no Message and leaves
\* the controller, its Input and its Outputs included, as it was
AfterFailureStep ==
    (HasFailed /\ op'.name = "poll") =>
        /\ ret' = Returned(None)
        /\ op'.fired = 0
        /\ threshold' = threshold
        /\ bidirectional' = bidirectional

\* C31: when a poll of a Threshold or BidirectionalThreshold aborts on a
\* malformed reading, the due Read is in the history and nothing is
\* pending; from then on the controller has no pending Event and no poll
\* reads the Input, commands an Output or returns a Message: the Outputs
\* keep the state they had before the failure.
C31_FailedControllerIsInert ==
    /\ [](HasFailed => (Pending = <<>> /\ LastFired.action = "Read"))
    /\ [][FailureStep /\ AfterFailureStep]_vars

\* a Threshold polled again after its second Read failed: the poll fired
\* nothing, nothing is pending, the Output holds its one earlier command
C31_Witness ==
    /\ threshold # Absent
    /\ HasFailed
    /\ op.name = "poll"
    /\ op.fired = 0
    /\ ~ret.panic
    /\ Pending = <<>>
    /\ Len(History) = 2
    /\ threshold.input.reads = 2
    /\ Len(threshold.output.calls) = 1

----------------------------------------------------------------------------
(* C32 *)

\* the Output was last commanded active
CommandedActive(o) == o.state = Some(TRUE)

\* C32: whenever a poll of a BidirectionalThreshold has returned (with a
\* Message, with none, or by failing), its increase and decrease Outputs
\* are not both commanded active.
C32_OutputsNeverBothActive ==
    bidirectional # Absent =>
        ~(/\ CommandedActive(bidirectional.increase_output)
          /\ CommandedActive(bidirectional.decrease_output))

\* a BidirectionalThreshold that went from the below zone straight to the
\* above zone: increase was activated and then released, decrease is active
C32_Witness ==
    /\ bidirectional # Absent
    /\ op.name = "poll"
    /\ op.fired # 0
    /\ bidirectional.increase_output.calls = <<TRUE, FALSE>>
    /\ bidirectional.decrease_output.calls = <<FALSE, TRUE>>
    /\ CommandedActive(bidirectional.decrease_output)
    /\ ~CommandedActive(bidirectional.increase_output)

----------------------------------------------------------------------------
(* C33 *)

\* both Outputs of the BidirectionalThreshold are commanded active
BothActive ==
    /\ CommandedActive(bidirectional.increase_output)
    /\ CommandedActive(bidirectional.decrease_output)

\* the running poll moves the controller from the below zone straight to
\* the above zone, or from above straight to below: the Output the handler
\* releases was active when the poll began
DirectTransition ==
    \/ /\ op.state = "AboveThreshold"
       /\ CommandedActive(op.before.increase_output)
    \/ /\ op.state = "BelowThreshold"
       /\ CommandedActive(op.before.decrease_output)

\* C33 (as stated): at no step inside or between polls, the step between
\* the two Output callbacks of a handler included, are the increase and
\* decrease Outputs both commanded active.
C33_NeverBothActiveInsidePoll ==
    bidirectional # Absent => ~BothActive

\* C33 (amended): the increase and decrease Outputs are both commanded
\* active exactly between the two Output callbacks of a poll that moves
\* the controller directly from the below zone to the above zone or from
\* above to below; at every other step they are not both active.
C33_BothActiveOnlyInsideDirectTransition ==
    bidirectional # Absent =>
        (BothActive <=> (op.pc = 1 /\ DirectTransition))

\* between the callbacks of a poll that found increase active and read a
\* sample above the band: decrease is already active, increase not yet
\* released
C33_Witness ==
    /\ bidirectional # Absent
    /\ op.pc = 1
    /\ op.state = "AboveThreshold"
    /\ CommandedActive(op.before.increase_output)
    /\ BothActive

----------------------------------------------------------------------------
(* C34 *)

\* C34: the Messages a TimedOutput scheduled once by schedule_first returns
\* alternate, whatever the instants it is polled at: the first, third, ...
\* Message says "Activated", the second, fourth, ... "Deactivated".
C34_MessagesAlternate ==
    (timed # Absent /\ op.name = "poll" /\ ret.val.some) =>
        ret.val.val.content =
            IF op.messages % 2 = 1 THEN "Activated" ELSE "Deactivated"

\* the third Message of a TimedOutput, returned by a poll later than the
\* instant its On was scheduled for
C34_Witness ==
    /\ timed # Absent
    /\ op.name = "poll"
    /\ ret.val.some
    /\ op.messages = 3
    /\ ret.val.val.content = "Activated"
    /\ LastFired.timestamp < op.time

----------------------------------------------------------------------------
(* C35 *)

\* the Actions of the Events in q
ActionsOf(q) == {q[i].action : i \in Indices(q)}

\* C35: a Threshold or BidirectionalThreshold built by its constructor and
\* driven by schedule_next and poll only ever holds Read Events, a
\* TimedOutput driven by schedule_first and poll only On and Off Events, so
\* no poll fires an Event of an Action its controller does not handle; the
\* one pending Event of a TimedOutput is an Off exactly when the last
\* command to its Output was activate, and an On otherwise.
C35_OnlyExpectedActions ==
    /\ HasReader => ActionsOf(Pending) \cup ActionsOf(History) \subseteq {"Read"}
    /\ timed # Absent =>
          /\ ActionsOf(Pending) \cup ActionsOf(History) \subseteq {"On", "Off"}
          /\ Len(Pending) = 1
          /\ Pending[1].action =
                 IF CommandedActive(timed.output) THEN "Off" ELSE "On"
          /\ ~ret.panic
    /\ (HasController /\ op.name = "poll" /\ op.fired # 0) =>
          ~Unhandled(LastFired.action)

\* a TimedOutput after its third firing poll, an On: the Output is
\* commanded active and the pending Event is the Off
C35_Witness ==
    /\ timed # Absent
    /\ op.name = "poll"
    /\ Len(History) = 3
    /\ LastFired.action = "On"
    /\ CommandedActive(timed.output)
    /\ ActionsOf(Pending) = {"Off"}

----------------------------------------------------------------------------
(* C36 *)

\* any two consecutive firing polls of a Threshold or BidirectionalThreshold
\* with a positive interval are at least the interval apart, and a poll at
\* the instant of the firing poll just before it fires nothing, returns no
\* Message and leaves the controller as it was
RateLimitStep ==
    (HasReader /\ Reader.interval > 0 /\ op'.name = "poll") =>
        /\ (op'.fired # 0 /\ op.read_at >= 0) =>
              op'.time >= op.read_at + Reader.interval
        /\ (op.name = "poll" /\ op.fired # 0 /\ op'.time = op.time) =>
              /\ op'.fired = 0
              /\ ret' = Returned(None)
              /\ threshold' = threshold
              /\ bidirectional' = bidirectional

\* C36: for a Threshold or BidirectionalThreshold with interval > 0 that
\* was scheduled once, a poll that fires a Read comes at least interval
\* after the firing poll before it, and a second poll at the instant of a
\* firing poll returns no Message and changes no state.
C36_ReadRateLimit ==
    [][RateLimitStep]_vars

\* a Threshold with a positive interval polled twice at the instant of its
\* second Read: the second of the two polls fired nothing
C36_Witness ==
    /\ threshold # Absent
    /\ threshold.interval > 0
    /\ op.name = "poll"
    /\ op.after # 0
    /\ op.fired = 0
    /\ op.read_at = op.time
    /\ Len(History) = 2
    /\ ret = Returned(None)

----------------------------------------------------------------------------
(* C37 *)

\* the positions of the controllers the group poll of the step polls: all
\* of them, or those up to the first whose poll fails fatally
PolledInStep ==
    IF FailingInStep = {}
    THEN DOMAIN group.controllers
    ELSE {i \in DOMAIN group.controllers :
             \A j \in FailingInStep : i <= j}

\* every controller in `polled` is left as one poll of it alone, at the
\* instant of the group poll, leaves it (its Scheduler and Outputs
\* included), and every other controller is as it was
PolledOnce(polled) ==
    /\ Len(group'.controllers) = Len(group.controllers)
    /\ \A i \in DOMAIN group.controllers :
          group'.controllers[i] =
              IF i \in polled THEN OwnPoll(i).self ELSE group.controllers[i]

\* the returned list holds at most one Message per controller, each of a
\* different controller, in insertion order
OneMessageEach ==
    ~ret'.panic =>
        /\ Len(ret'.val) <= Len(group.controllers)
        /\ \A a, b \in 1..Len(ret'.val) :
              a < b => \E i, j \in FiredInStep :
                          /\ i < j
                          /\ ret'.val[a].name = ToString(i)
                          /\ ret'.val[b].name = ToString(j)

\* C37 (as stated): every call of ControllerGroup::poll polls every member
\* exactly once, all at the same instant and in insertion order; the
\* returned list has at most one Message per controller; the poll of one
\* controller changes no other controller.
C37_GroupPollsEveryMemberOnce ==
    [][IsGroupPollStep =>
          /\ PolledOnce(DOMAIN group.controllers)
          /\ OneMessageEach]_vars

\* C37 (amended): a call of ControllerGroup::poll that returns has polled
\* every member exactly once, all at the same instant and in insertion
\* order; a call in which a member's poll fails fatally has polled the
\* members up to and including that one exactly once and the members after
\* it not at all.  The returned list has at most one Message per
\* controller, and the poll of one controller changes no other controller.
C37_GroupPollsMembersUpToFailure ==
    [][IsGroupPollStep =>
          /\ PolledOnce(PolledInStep)
          /\ OneMessageEach]_vars

\* a group of three polled late: the TimedOutput in second place fired its
\* On, armed an Off that is already due and was not polled again, and the
\* first and third controller returned their Messages as well
C37_Witness ==
    /\ group # Absent
    /\ op.name = "group_poll"
    /\ ~ret.panic
    /\ Len(group.controllers) = 3
    /\ group.controllers[2].kind = "TimedOutput"
    /\ Len(ret.val) = 3
    /\ Len(group.controllers[2].c.scheduler.events) = 1
    /\ DueAt(group.controllers[2].c.scheduler.future_events, op.time) # {}

----------------------------------------------------------------------------
(* C38 *)

\* the i-th controller of the group fired an Event in the last poll
FiredInLastPoll(i) ==
    /\ i \in DOMAIN group.controllers
    /\ op.name = "group_poll"
    /\ op.fired[i] # 0

\* the i-th controller of the group did not fire in the last poll and holds
\* a pending Event for an instant the driver's clock has yet to reach or
\* pass
Awaits(i) ==
    /\ i \in DOMAIN group.controllers
    /\ ~FiredInLastPoll(i)
    /\ op.time < MaxLiveTime
    /\ \E k \in Indices(Controller_scheduler(group.controllers[i]).future_events) :
          Controller_scheduler(group.controllers[i]).future_events[k].timestamp
              <= MaxLiveTime

\* C38: under a driver that keeps polling the group at instants that grow,
\* and with no malformed reading, every controller that holds a pending
\* Event for an instant the clock reaches fires it in some later poll,
\* whatever the other members of the group do: no pending Event is left
\* waiting and no controller is starved.
C38_EveryPendingEventFires ==
    \A i \in 1..MaxLiveSize : Awaits(i) ~> FiredInLastPoll(i)

\* a Threshold that fires at every poll followed by a TimedOutput, at the
\* last instant of the clock: both have fired more than once
C38_Witness ==
    /\ group # Absent
    /\ op.name = "group_poll"
    /\ op.time = MaxLiveTime
    /\ Len(group.controllers) = 2
    /\ group.controllers[1].kind = "Threshold"
    /\ group.controllers[2].kind = "TimedOutput"
    /\ \A i \in 1..2 :
          Len(Controller_scheduler(group.controllers[i]).events) >= 2

----------------------------------------------------------------------------
(* C39 *)

\* the last call was a poll of the TimedOutput that fired an Event of this
\* Action
TimedFired(action) ==
    /\ timed # Absent
    /\ op.name = "poll"
    /\ op.fired # 0
    /\ LastFired.action = action

\* the Off armed by an On firing is at or after the instant the On was
\* scheduled for plus the duration: at it when the On fires on the calendar
\* day it was scheduled for, after it when the On fires on a later day
OffAfterOn ==
    TimedFired("On") =>
        /\ Pending[1].action = "Off"
        /\ Pending[1].timestamp >= LastFired.timestamp + timed.duration
        /\ (DayStart(op.time) = DayStart(LastFired.timestamp)) <=>
              (Pending[1].timestamp = LastFired.timestamp + timed.duration)

\* the On armed by an Off firing at instant t is strictly after t
OnAfterOff ==
    TimedFired("Off") =>
        /\ Pending[1].action = "On"
        /\ Pending[1].timestamp > op.time

\* a poll at the instant of the poll before it, which fired an Off, fires
\* nothing and leaves the Output deactivated
RepeatAfterOffStep ==
    (TimedFired("Off") /\ op'.name = "poll" /\ op'.time = op.time) =>
        /\ timed' = timed
        /\ ret' = Returned(None)
        /\ ~CommandedActive(timed'.output)

\* an Off that is already due when a late On firing arms it is fired by the
\* very next poll, if that poll is not at an earlier instant
DueOffStep ==
    (/\ TimedFired("On")
     /\ Pending[1].timestamp <= op.time
     /\ op'.name = "poll"
     /\ op'.time >= op.time) =>
        /\ op'.fired = Pending[1].id
        /\ ~ret'.panic
        /\ ret'.val.some
        /\ ret'.val.val.content = "Deactivated"
        /\ ~CommandedActive(timed'.output)

\* C39: the Off a TimedOutput arms when an On fires is never earlier than
\* the On's scheduled instant plus the duration and equals it when the On
\* fires on its scheduled calendar day; the On armed when an Off fires at
\* instant t is strictly later than t, so a repeated poll at t does not
\* activate the Output again; an Off armed by a late On firing that is
\* already due fires at the very next poll.
C39_OffAndOnTimestamps ==
    /\ [](OffAfterOn /\ OnAfterOff)
    /\ [][RepeatAfterOffStep /\ DueOffStep]_vars

\* an On fired on a day after the one it was scheduled for armed an Off
\* that was already due: the next poll, at the same instant, fired that Off
C39_Witness ==
    /\ TimedFired("Off")
    /\ op.after # 0
    /\ op.fired = op.after + 1
    /\ Len(History) >= 2
    /\ History[Len(History) - 1].action = "On"
    /\ DayStart(op.time) > DayStart(History[Len(History) - 1].timestamp)
    /\ LastFired.timestamp <= op.time

----------------------------------------------------------------------------
(* C40 *)

\* the last pass of run() handed its Messages to the emitter and got an Err
EmitFailed == runtime # Absent /\ op.emit = "err"

\* C40: a failed delivery does not affect control: after the emitter
\* returned an error for a batch the loop of run() keeps running, with the
\* next execution time one interval after the poll; Messages are handed to
\* the emitter only when the polled batch is not empty and an emitter is
\* configured.
C40_SinkFailureDoesNotStopLoop ==
    /\ EmitFailed =>
           /\ ~ret.panic
           /\ op.next_execution_time = op.now + runtime.interval
    /\ (runtime # Absent /\ op.emit # "none") =>
           /\ has_emitter(runtime)
           /\ op.polled
           /\ Len(op.messages) > 0

====
